---- MODULE Spec2Model ----
(***************************************************************************)
(* Glyph Engine: token model, scroll policy, validator engine, store with  *)
(* transactions, append-only audit log and the orchestrating engine.       *)
(*                                                                         *)
(* Conventions.  An Optional value is a sequence of length <= 1: <<>> is   *)
(* Python's None (or a missing dict key), <<v>> is the value v.  A glyph   *)
(* id "G-%03d" % n and an event id "A-%06d" % n are modelled by the number *)
(* n (both formats are injective on the naturals).  Intensities and        *)
(* attenuation factors are in percent (100 is 1.0).  Time is in seconds;   *)
(* every clock read inside one request returns the same instant `now`.     *)
(***************************************************************************)
EXTENDS Integers, Sequences, FiniteSets, TLC

VARIABLES
    now,            \* datetime.utcnow()
    config,         \* EngineConfig
    glyphs,         \* vault/glyphs/*.json : glyph id -> stored token
    glyph_cache,    \* GlyphStore._glyph_cache
    backups,        \* vault/_backup/<tx id>/ : tx id -> (glyph id -> token)
    transaction,    \* GlyphStore._transaction (Optional)
    tx_counter,     \* GlyphStore._tx_counter
    audit,          \* vault/audit.jsonl : sequence of events
    event_counter,  \* AuditLog._event_counter
    glyph_counter,  \* GlyphEngine._glyph_counter
    session_id,     \* GlyphEngine.session_id
    scrolls,        \* GlyphEngine._scrolls
    validators,     \* ValidatorEngine.validators
    facts,          \* vault/facts/*.md : sequence of stored facts
    scroll_files,   \* vault/scrolls/*.json : scroll id -> scroll
    begin_glyphs    \* history: the glyph files when the open transaction began

vars == <<now, config, glyphs, glyph_cache, backups, transaction, tx_counter,
          audit, event_counter, glyph_counter, session_id, scrolls,
          validators, facts, scroll_files, begin_glyphs>>

----------------------------------------------------------------------------
(* Bounds of the exploration *)

MaxEvents == 3
MaxLifeEvents == 4
MaxFacts == 1
MaxTx == 2
MaxOps == 2
MaxPayloadEvents == 2
MaxPayloadIds == 2
MaxTamper == 2
MaxTransitions == 2
MaxTime == 100000
MaxLifeTime == 3

----------------------------------------------------------------------------
(* Generic helpers *)

None == <<>>
Some(v) == <<v>>

Put(f, k, v) == [x \in (DOMAIN f) \cup {k} |-> IF x = k THEN v ELSE f[x]]
Remove(f, k) == [x \in (DOMAIN f) \ {k} |-> f[x]]
EmptyMap == [x \in {} |-> 0]

Max(a, b) == IF a >= b THEN a ELSE b

\* dict.get(key, default) on a payload whose keys are Optional fields
get(payload, key, default) ==
    IF payload[key] = None THEN default ELSE payload[key][1]

Perms(S) == {f \in [1..Cardinality(S) -> S] :
                \A i, j \in 1..Cardinality(S) : i # j => f[i] # f[j]}

----------------------------------------------------------------------------
(* token.py *)

GlyphClass == {"anchor", "mutation", "warning", "audit", "consent"}

DEFAULT_TOKEN_TTL == 86400
GENESIS_ANCHOR_TTL == 31536000
GENESIS_CONSENT_TTL == 86400
MAX_EXPLANATION == 200

\* Explanations are drawn from a few strings; these say what the code
\* computes on them: len(explanation) and "identity" in explanation.lower().
ExplanationLen(e) ==
    CASE e = "" -> 0
      [] e = "x * 201" -> 201
      [] OTHER -> 20
MentionsIdentity(e) == e = "This is my identity marker"

\* pydantic field constraints of GlyphToken (ge/le/max_length, enum)
FieldsValid(glyph_class, intensity, ttl_seconds, explanation) ==
    /\ glyph_class \in GlyphClass
    /\ intensity >= 0 /\ intensity <= 100
    /\ ttl_seconds >= 1
    /\ ExplanationLen(explanation) <= MAX_EXPLANATION

\* GlyphToken(...) followed by model_post_init: expires_at is derived
GlyphToken(glyph_id, glyph_class, intensity, source, ttl_seconds, explanation) ==
    [glyph_id |-> glyph_id, glyph_class |-> glyph_class,
     intensity |-> intensity, source |-> source,
     ttl_seconds |-> ttl_seconds, created_at |-> now,
     expires_at |-> now + ttl_seconds, explanation |-> explanation]

is_expired(g) == now > g.expires_at

refresh(g, additional_seconds) ==
    [g EXCEPT !.ttl_seconds = g.ttl_seconds + additional_seconds,
              !.expires_at = now + (g.ttl_seconds + additional_seconds)]

attenuate(g, factor) ==
    [g EXCEPT !.intensity = Max(0, (g.intensity * factor) \div 100)]

\* Module-level genesis tokens, constructed at import time (instant 0)
GENESIS_GLYPHS ==
    [i \in {0, 1} |->
        IF i = 0
        THEN [glyph_id |-> 0, glyph_class |-> "anchor", intensity |-> 100,
              source |-> "system", ttl_seconds |-> GENESIS_ANCHOR_TTL,
              created_at |-> 0, expires_at |-> GENESIS_ANCHOR_TTL,
              explanation |-> "Genesis anchor - system bootstrap state."]
        ELSE [glyph_id |-> 1, glyph_class |-> "consent", intensity |-> 100,
              source |-> "system", ttl_seconds |-> GENESIS_CONSENT_TTL,
              created_at |-> 0, expires_at |-> GENESIS_CONSENT_TTL,
              explanation |-> "Default consent gate - requires explicit user approval."]]

----------------------------------------------------------------------------
(* scroll.py *)

MutationType == {"rotate", "attenuate", "amplify", "transform", "refresh", "decay"}

\* mutant of is_mutation_allowed: the allowed set alone decides
is_mutation_allowed_by_allowed(scroll, mutation) ==
    mutation \in scroll.allowed_mutations

is_mutation_allowed(scroll, mutation) ==
    IF mutation \in scroll.forbidden_mutations
    THEN FALSE
    ELSE mutation \in scroll.allowed_mutations

\* mutant of can_transition: the explicit transition list is not consulted
can_transition_open(scroll, from_id, to_id, mutation) ==
    is_mutation_allowed(scroll, mutation)

can_transition(scroll, from_id, to_id, mutation) ==
    IF ~is_mutation_allowed(scroll, mutation)
    THEN FALSE
    ELSE IF \E i \in 1..Len(scroll.transitions) :
                /\ scroll.transitions[i].from_glyph_id = from_id
                /\ scroll.transitions[i].to_glyph_id = to_id
                /\ scroll.transitions[i].mutation_type = mutation
         THEN TRUE
         ELSE Len(scroll.transitions) = 0

GENESIS_SCROLL ==
    [scroll_id |-> "S-000",
     allowed_mutations |-> {"rotate", "attenuate", "refresh", "decay"},
     forbidden_mutations |-> {"amplify", "transform"},
     transitions |-> <<>>, validator_id |-> "V-00"]

STANDARD_SCROLL ==
    [scroll_id |-> "S-001",
     allowed_mutations |-> {"rotate", "attenuate", "amplify", "refresh",
                            "decay", "transform"},
     forbidden_mutations |-> {},
     transitions |-> <<>>, validator_id |-> "V-01"]

----------------------------------------------------------------------------
(* validator.py *)

Check(name, description, is_critical) ==
    [name |-> name, description |-> description, is_critical |-> is_critical]

\* sha256 over "id:version:len(checks)" and ":name:is_critical" per check;
\* the digest is modelled by the tuple it hashes
compute_checksum(v) ==
    <<v.validator_id, v.version, Len(v.checks),
      [i \in 1..Len(v.checks) |-> <<v.checks[i].name, v.checks[i].is_critical>>]>>

verify_integrity(v) ==
    IF v.checksum = None THEN TRUE ELSE compute_checksum(v) = v.checksum[1]

Validator(validator_id, checks, on_fail) ==
    [validator_id |-> validator_id, checks |-> checks, on_fail |-> on_fail,
     version |-> "1.0.0", checksum |-> None]

\* ValidatorEngine._register_core_validators, checksums computed last
CoreValidators ==
    LET v00 == Validator("V-00",
                 <<Check("no_identity_fixation", "Glyphs cannot represent identity", TRUE),
                   Check("ttl_required", "All glyphs must have TTL", TRUE)>>,
                 "halt")
        v01 == Validator("V-01",
                 <<Check("no_recursive_amplification", "Cannot amplify same glyph repeatedly", TRUE),
                   Check("no_identity_fixation", "Glyphs cannot represent identity", TRUE),
                   Check("ttl_required", "All glyphs must have TTL", TRUE),
                   Check("max_intensity", "Intensity cannot exceed 1.0", FALSE),
                   Check("authentication_required", "Mutations require authenticated source", TRUE)>>,
                 "halt")
        v02 == Validator("V-02",
                 <<Check("no_ownership_conflict", "Cannot mutate glyph owned by another agent without consent", TRUE),
                   Check("no_race_condition", "Check for concurrent modification attempts", TRUE)>>,
                 "request_confirmation")
        reg == [id \in {"V-00", "V-01", "V-02"} |->
                   CASE id = "V-00" -> v00 [] id = "V-01" -> v01 [] OTHER -> v02]
    IN  [id \in DOMAIN reg |->
            [reg[id] EXCEPT !.checksum = Some(compute_checksum(reg[id]))]]

ValidatorResult(passed, validator_id, check_name, message, action) ==
    [passed |-> passed, validator_id |-> validator_id,
     check_name |-> check_name, message |-> message, action |-> action]

AmplifyCount(history) ==
    Cardinality({i \in 1..Len(history) : history[i].mutation = "amplify"})

\* mutant of run_check: authentication_required looks at the source only
run_check_source_only(check, context, validator) ==
    LET glyph == context.glyph
        fail(message) == ValidatorResult(FALSE, validator.validator_id,
                                         check.name, message, validator.on_fail)
        pass == ValidatorResult(TRUE, validator.validator_id, check.name,
                                "Check passed", "allow")
    IN  CASE check.name = "no_identity_fixation" ->
                IF glyph # None /\ MentionsIdentity(glyph[1].explanation)
                THEN fail("Glyph explanation contains identity reference")
                ELSE pass
          [] check.name = "ttl_required" ->
                IF glyph # None /\ glyph[1].ttl_seconds <= 0
                THEN fail("Glyph has no TTL")
                ELSE pass
          [] check.name = "no_recursive_amplification" ->
                IF AmplifyCount(context.history) >= 3
                THEN fail("Recursive amplification detected")
                ELSE pass
          [] check.name = "authentication_required" ->
                IF context.source = "unknown"
                THEN fail("Unauthenticated mutation attempt")
                ELSE pass
          [] check.name = "max_intensity" ->
                IF glyph # None /\ glyph[1].intensity > 100
                THEN fail("Intensity exceeds maximum")
                ELSE pass
          [] OTHER -> pass

\* ValidatorEngine._run_check: context = [glyph, mutation, source,
\* authenticated, history]; glyph is Optional
run_check(check, context, validator) ==
    LET glyph == context.glyph
        fail(message) == ValidatorResult(FALSE, validator.validator_id,
                                         check.name, message, validator.on_fail)
        pass == ValidatorResult(TRUE, validator.validator_id, check.name,
                                "Check passed", "allow")
    IN  CASE check.name = "no_identity_fixation" ->
                IF glyph # None /\ MentionsIdentity(glyph[1].explanation)
                THEN fail("Glyph explanation contains identity reference")
                ELSE pass
          [] check.name = "ttl_required" ->
                IF glyph # None /\ glyph[1].ttl_seconds <= 0
                THEN fail("Glyph has no TTL")
                ELSE pass
          [] check.name = "no_recursive_amplification" ->
                IF AmplifyCount(context.history) >= 3
                THEN fail("Recursive amplification detected")
                ELSE pass
          [] check.name = "authentication_required" ->
                IF context.source = "unknown" \/ ~context.authenticated
                THEN fail("Unauthenticated mutation attempt")
                ELSE pass
          [] check.name = "max_intensity" ->
                IF glyph # None /\ glyph[1].intensity > 100
                THEN fail("Intensity exceeds maximum")
                ELSE pass
          [] OTHER -> pass

\* mutant of run_checks: the loop without its break
run_checks_never_stops(validator, context, i, results) ==
    results \o [j \in 1..(Len(validator.checks) - i + 1) |->
                   run_check(validator.checks[i + j - 1], context, validator)]

\* the loop of validate_transition from check i on: stop after a failing
\* critical check
RECURSIVE run_checks(_, _, _, _)
run_checks(validator, context, i, results) ==
    IF i > Len(validator.checks)
    THEN results
    ELSE LET check == validator.checks[i]
             result == run_check(check, context, validator)
         IN  IF ~result.passed /\ check.is_critical
             THEN Append(results, result)
             ELSE run_checks(validator, context, i + 1, Append(results, result))

\* mutant of validate_transition: an unknown validator has nothing to fail
validate_transition_permissive(registry, validator_id, context) ==
    IF validator_id \notin DOMAIN registry
    THEN <<>>
    ELSE IF ~verify_integrity(registry[validator_id])
         THEN <<ValidatorResult(FALSE, validator_id, "validator_integrity",
                                "Validator failed integrity check", "halt")>>
         ELSE run_checks(registry[validator_id], context, 1, <<>>)

validate_transition(registry, validator_id, context) ==
    IF validator_id \notin DOMAIN registry
    THEN <<ValidatorResult(FALSE, validator_id, "validator_exists",
                           "Validator not found", "halt")>>
    ELSE IF ~verify_integrity(registry[validator_id])
         THEN <<ValidatorResult(FALSE, validator_id, "validator_integrity",
                                "Validator failed integrity check", "halt")>>
         ELSE run_checks(registry[validator_id], context, 1, <<>>)

----------------------------------------------------------------------------
(* store.py.  The operations act on a world record w holding the fields    *)
(* the engine's collaborators own; each returns the world after the call.  *)

World ==
    [glyphs |-> glyphs, glyph_cache |-> glyph_cache, backups |-> backups,
     transaction |-> transaction, tx_counter |-> tx_counter,
     audit |-> audit, event_counter |-> event_counter,
     glyph_counter |-> glyph_counter, facts |-> facts,
     scroll_files |-> scroll_files]

\* model_dump_json writes every field; model_validate_json reads them back
\* and re-applies the field constraints
model_dump_json(g) == g
json_valid(text) ==
    FieldsValid(text.glyph_class, text.intensity, text.ttl_seconds, text.explanation)

log_operation(w, type, glyph_id) ==
    IF w.transaction = None
    THEN w.transaction
    ELSE Some([w.transaction[1] EXCEPT
                 !.operations = Append(@, [type |-> type, glyph_id |-> glyph_id])])

save_glyph(w, g) ==
    [w EXCEPT !.glyphs = Put(@, g.glyph_id, model_dump_json(g)),
              !.glyph_cache = Put(@, g.glyph_id, g),
              !.transaction = log_operation(w, "save_glyph", g.glyph_id)]

\* load_glyph returns the cached object when there is one, else the parsed
\* file, which it caches.  load_world is the store after the call,
\* load_result the Optional token returned.
load_result(w, glyph_id) ==
    IF glyph_id \in DOMAIN w.glyph_cache
    THEN Some(w.glyph_cache[glyph_id])
    ELSE IF glyph_id \notin DOMAIN w.glyphs
         THEN None
         ELSE Some(w.glyphs[glyph_id])

load_world(w, glyph_id) ==
    IF glyph_id \in DOMAIN w.glyph_cache \/ glyph_id \notin DOMAIN w.glyphs
    THEN w
    ELSE [w EXCEPT !.glyph_cache = Put(@, glyph_id, w.glyphs[glyph_id])]

delete_result(w, glyph_id) == glyph_id \in DOMAIN w.glyphs

\* mutant of delete_glyph: the cache entry survives the deletion
delete_glyph_keeps_cache(w, glyph_id) ==
    IF glyph_id \notin DOMAIN w.glyphs
    THEN w
    ELSE [w EXCEPT !.glyphs = Remove(@, glyph_id),
                   !.transaction = log_operation(w, "delete_glyph", glyph_id)]

delete_glyph(w, glyph_id) ==
    IF glyph_id \notin DOMAIN w.glyphs
    THEN w
    ELSE [w EXCEPT !.glyphs = Remove(@, glyph_id),
                   !.glyph_cache = Remove(@, glyph_id),
                   !.transaction = log_operation(w, "delete_glyph", glyph_id)]

list_glyphs(w) == DOMAIN w.glyphs

\* get_all_glyphs: load_glyph on every listed id (this fills the cache)
all_glyphs_world(w) ==
    [w EXCEPT !.glyph_cache =
        [id \in (DOMAIN w.glyph_cache) \cup (DOMAIN w.glyphs) |->
            IF id \in DOMAIN w.glyph_cache THEN w.glyph_cache[id] ELSE w.glyphs[id]]]

get_all_glyphs(w) ==
    [id \in list_glyphs(w) |-> load_result(w, id)[1]]

get_active_glyphs(w) ==
    LET all == get_all_glyphs(w)
    IN  [id \in {i \in DOMAIN all : ~is_expired(all[i])} |-> all[id]]

\* mutant of get_expired_glyphs: the expiry filter is dropped
get_expired_glyphs_unfiltered(w) == get_all_glyphs(w)

get_expired_glyphs(w) ==
    LET all == get_all_glyphs(w)
    IN  [id \in {i \in DOMAIN all : is_expired(all[i])} |-> all[id]]

\* Transactions.  begin_raises: a transaction is already open (RuntimeError).
\* mutant of the guard of begin_transaction: an open transaction is not noticed
begin_raises_never(w) == FALSE

begin_raises(w) == w.transaction # None

\* mkdir(exist_ok=True) keeps whatever the directory already holds; every
\* current glyph file is then copied into it
begin_transaction(w) ==
    LET tx_id == w.tx_counter + 1
        old == IF tx_id \in DOMAIN w.backups THEN w.backups[tx_id] ELSE EmptyMap
        dir == [id \in (DOMAIN old) \cup (DOMAIN w.glyphs) |->
                   IF id \in DOMAIN w.glyphs THEN w.glyphs[id] ELSE old[id]]
    IN  [w EXCEPT !.tx_counter = tx_id,
                  !.backups = Put(@, tx_id, dir),
                  !.transaction = Some([transaction_id |-> tx_id, operations |-> <<>>])]

\* the call as a whole: RuntimeError before anything is touched, or the
\* transaction begun
begin_transaction_call(w) ==
    IF begin_raises(w)
    THEN [w |-> w, raised |-> TRUE]
    ELSE [w |-> begin_transaction(w), raised |-> FALSE]

commit_result(w) == w.transaction # None

\* mutant of commit_transaction: the backup directory is left behind
commit_transaction_keeps_backup(w) ==
    [w EXCEPT !.transaction = None]

commit_transaction(w) ==
    IF w.transaction = None
    THEN w
    ELSE [w EXCEPT !.backups = Remove(@, w.transaction[1].transaction_id),
                   !.transaction = None]

rollback_result(w) == w.transaction # None

\* mutant of rollback_transaction: the rollback also discards the facts
rollback_transaction_covers_facts(w) ==
    IF w.transaction = None
    THEN w
    ELSE [w EXCEPT !.glyphs = IF w.transaction[1].transaction_id \in DOMAIN w.backups
                              THEN w.backups[w.transaction[1].transaction_id] ELSE @,
                   !.backups = Remove(@, w.transaction[1].transaction_id),
                   !.transaction = None,
                   !.glyph_cache = EmptyMap,
                   !.facts = <<>>]

\* mutant of rollback_transaction: the read cache survives the rollback
rollback_transaction_keeps_cache(w) ==
    IF w.transaction = None
    THEN w
    ELSE [w EXCEPT !.glyphs = IF w.transaction[1].transaction_id \in DOMAIN w.backups
                              THEN w.backups[w.transaction[1].transaction_id] ELSE @,
                   !.backups = Remove(@, w.transaction[1].transaction_id),
                   !.transaction = None]

rollback_transaction(w) ==
    IF w.transaction = None
    THEN w
    ELSE LET tx_id == w.transaction[1].transaction_id
         IN  [w EXCEPT !.glyphs = IF tx_id \in DOMAIN w.backups
                                  THEN w.backups[tx_id] ELSE @,
                       !.backups = Remove(@, tx_id),
                       !.transaction = None,
                       !.glyph_cache = EmptyMap]

\* save_fact under a fresh uuid: one more file in facts/
save_fact(w, content, metadata) ==
    [w EXCEPT !.facts = Append(@, [content |-> content, metadata |-> metadata])]

----------------------------------------------------------------------------
(* audit.py *)

\* open(log_path, "a"); write one line
\* mutant of AuditLog.append: the file is opened for writing, not appending
append_overwrites(log, event) == <<event>>

append(log, event) == Append(log, event)

\* mutant of create_event: the event counter is never advanced
create_event_same_id(w, event_type, glyph_id, source, before_state, after_state, validation_results) ==
    LET event == [event_id |-> w.event_counter + 1, event_type |-> event_type,
                  glyph_id |-> glyph_id, timestamp |-> now,
                  source |-> source, session_id |-> session_id,
                  before_state |-> before_state, after_state |-> after_state,
                  validation_results |-> validation_results]
    IN  [w EXCEPT !.audit = append(@, event)]

create_event(w, event_type, glyph_id, source, before_state, after_state, validation_results) ==
    LET n == w.event_counter + 1
        event == [event_id |-> n, event_type |-> event_type,
                  glyph_id |-> glyph_id, timestamp |-> now,
                  source |-> source, session_id |-> session_id,
                  before_state |-> before_state, after_state |-> after_state,
                  validation_results |-> validation_results]
    IN  [w EXCEPT !.event_counter = n, !.audit = append(@, event)]

\* one event per non-blank line, in file order
read_all(log) == [i \in 1..Len(log) |-> log[i]]

query_by_glyph(log, glyph_id) ==
    SelectSeq(read_all(log), LAMBDA e : e.glyph_id = glyph_id)

query_by_type(log, event_type) ==
    SelectSeq(read_all(log), LAMBDA e : e.event_type = event_type)

\* sorted(events, key=timestamp): a stable sort, here by insertion
RECURSIVE insert_by_timestamp(_, _)
insert_by_timestamp(sorted, e) ==
    IF sorted = <<>> \/ sorted[Len(sorted)].timestamp <= e.timestamp
    THEN Append(sorted, e)
    ELSE Append(insert_by_timestamp(SubSeq(sorted, 1, Len(sorted) - 1), e),
                sorted[Len(sorted)])

RECURSIVE sorted_by_timestamp(_)
sorted_by_timestamp(events) ==
    IF events = <<>>
    THEN <<>>
    ELSE insert_by_timestamp(
             sorted_by_timestamp(SubSeq(events, 1, Len(events) - 1)),
             events[Len(events)])

timeline_entry(event) ==
    [event_id |-> event.event_id, type |-> event.event_type,
     timestamp |-> event.timestamp, source |-> event.source]

\* mutant of the loop: the current state is set once and never updated
RECURSIVE replay_keeps_first(_, _, _)
replay_keeps_first(history, events, i) ==
    IF i > Len(events)
    THEN history
    ELSE LET event == events[i]
             entry == timeline_entry(event)
             h1 == [history EXCEPT !.timeline = Append(@, entry)]
             h2 == CASE event.event_type = "created" ->
                           [h1 EXCEPT !.creation_event = Some(entry)]
                      [] event.event_type = "mutated" ->
                           [h1 EXCEPT !.mutations = Append(@, entry)]
                      [] OTHER -> h1
             h3 == IF event.after_state # None /\ h2.current_state = None
                   THEN [h2 EXCEPT !.current_state = event.after_state]
                   ELSE h2
         IN  replay_keeps_first(h3, events, i + 1)

\* the loop of reconstruct_glyph_history over the sorted events
RECURSIVE replay(_, _, _)
replay(history, events, i) ==
    IF i > Len(events)
    THEN history
    ELSE LET event == events[i]
             entry == timeline_entry(event)
             h1 == [history EXCEPT !.timeline = Append(@, entry)]
             h2 == CASE event.event_type = "created" ->
                           [h1 EXCEPT !.creation_event = Some(entry)]
                      [] event.event_type = "mutated" ->
                           [h1 EXCEPT !.mutations = Append(@, entry)]
                      [] OTHER -> h1
             h3 == IF event.after_state # None
                   THEN [h2 EXCEPT !.current_state = event.after_state]
                   ELSE h2
         IN  replay(h3, events, i + 1)

reconstruct_glyph_history(log, glyph_id) ==
    LET events == query_by_glyph(log, glyph_id)
    IN  replay([glyph_id |-> glyph_id, total_events |-> Len(events),
                creation_event |-> None, mutations |-> <<>>,
                current_state |-> None, timeline |-> <<>>],
               sorted_by_timestamp(events), 1)

----------------------------------------------------------------------------
(* input.py.  A raw input is the mapping handed to process_input:          *)
(* [type, verb, target, payload, source, auth_token], the keys type, verb, *)
(* target and auth_token Optional.                                         *)

InputType == {"fact", "state", "command"}
CommandVerb == {"remember", "forget", "reframe", "audit", "refresh", "attenuate"}
TargetVerbs == {"forget", "reframe", "refresh", "attenuate"}

\* mutant of is_authenticated: every message counts as authenticated
is_authenticated_always(msg) == TRUE

\* mutant of is_authenticated: only a token authenticates
is_authenticated_token_only(msg) == msg.auth_token # None

is_authenticated(msg) == msg.auth_token # None \/ msg.source = "system"

validate_command(msg) ==
    IF msg.input_type = "command"
    THEN IF msg.command_verb = None
         THEN FALSE
         ELSE IF msg.command_verb[1] \in TargetVerbs
              THEN msg.target_glyph_id # None
              ELSE TRUE
    ELSE TRUE

\* mutant of parse_raises: a verb outside the enumeration is let through
parse_raises_ignores_verb(raw) ==
    \/ raw.type = None
    \/ raw.type[1] \notin InputType
    \/ ~validate_command([input_type |-> raw.type[1], command_verb |-> raw.verb,
                          target_glyph_id |-> raw.target])

\* InputParser.parse raises ValueError: no type, a type or verb outside the
\* enumerations, or a command that fails validate_command
parse_raises(raw) ==
    \/ raw.type = None
    \/ raw.type[1] \notin InputType
    \/ (raw.verb # None /\ raw.verb[1] \notin CommandVerb)
    \/ ~validate_command([input_type |-> raw.type[1], command_verb |-> raw.verb,
                          target_glyph_id |-> raw.target])

parse(raw) ==
    [input_type |-> raw.type[1], payload |-> raw.payload, source |-> raw.source,
     command_verb |-> raw.verb, target_glyph_id |-> raw.target,
     auth_token |-> raw.auth_token]

----------------------------------------------------------------------------
(* engine.py.  A handler returns [w, response]: the world after it and the *)
(* EngineResponse; raised = TRUE stands for an exception leaving           *)
(* process_input instead of a response.                                    *)

DEFAULT_TTL_SECONDS == 86400
REMEMBER_TTL == 604800
DEFAULT_INTENSITY == 50
DEFAULT_REFRESH_SECONDS == 86400
DEFAULT_FACTOR == 90

EngineResponse(success, message, glyph_id, validation_results) ==
    [success |-> success, message |-> message, glyph_id |-> glyph_id,
     validation_results |-> validation_results, raised |-> FALSE]

Raised(exception) ==
    [success |-> FALSE, message |-> exception, glyph_id |-> None,
     validation_results |-> None, raised |-> TRUE]

Result(w, resp) == [w |-> w, response |-> resp]

get_scroll(scroll_id) ==
    IF scroll_id \in DOMAIN scrolls THEN scrolls[scroll_id] ELSE STANDARD_SCROLL

\* mutants of _check_accretion: the check never rejects; off by one
check_accretion_never_rejects(w) == TRUE
check_accretion_off_by_one(w) ==
    Cardinality(DOMAIN get_active_glyphs(w)) <= config.max_active_glyphs

check_accretion(w) ==
    Cardinality(DOMAIN get_active_glyphs(w)) < config.max_active_glyphs

\* the loop of _run_decay_cycle; order is the iteration order of the dict
\* of expired glyphs (the directory listing order)
RECURSIVE decay_loop(_, _, _, _)
decay_loop(w, expired, order, i) ==
    IF i > Len(order)
    THEN w
    ELSE LET glyph_id == order[i]
             w1 == delete_glyph(w, glyph_id)
             w2 == create_event(w1, "expired", glyph_id, "system",
                                Some(expired[glyph_id]), None, None)
         IN  decay_loop(w2, expired, order, i + 1)

\* mutant of _run_decay_cycle: the sweep deletes without auditing
RECURSIVE silent_decay_loop(_, _, _)
silent_decay_loop(w, order, i) ==
    IF i > Len(order) THEN w
    ELSE silent_decay_loop(delete_glyph(w, order[i]), order, i + 1)
run_decay_cycle_silent(w, order) ==
    silent_decay_loop(all_glyphs_world(w), order, 1)

\* mutant of _run_decay_cycle: expired tokens are audited but not deleted
RECURSIVE audit_only_decay_loop(_, _, _, _)
audit_only_decay_loop(w, expired, order, i) ==
    IF i > Len(order) THEN w
    ELSE audit_only_decay_loop(
             create_event(w, "expired", order[i], "system",
                          Some(expired[order[i]]), None, None),
             expired, order, i + 1)
run_decay_cycle_keeps_tokens(w, order) ==
    audit_only_decay_loop(all_glyphs_world(w), get_expired_glyphs(w), order, 1)

run_decay_cycle(w, order) ==
    decay_loop(all_glyphs_world(w), get_expired_glyphs(w), order, 1)

\* mutant of _handle_fact: the fact is stored after a decay sweep
handle_fact_after_sweep(w, msg) ==
    Result(save_fact(run_decay_cycle(w, CHOOSE order \in Perms(DOMAIN get_expired_glyphs(w)) : TRUE),
                     get(msg.payload, "content", ""),
                     [source |-> msg.source,
                      category |-> get(msg.payload, "category", "general")]),
           EngineResponse(TRUE, "Fact stored", None, None))

handle_fact(w, msg) ==
    LET content == get(msg.payload, "content", "")
        metadata == [source |-> msg.source,
                     category |-> get(msg.payload, "category", "general")]
    IN  Result(save_fact(w, content, metadata),
               EngineResponse(TRUE, "Fact stored", None, None))

\* mutant of _handle_state: a token that fails validation is saved all the same
handle_state_persists_rejected(w, msg, order) ==
    LET w1 == run_decay_cycle(w, order)
    IN  IF ~check_accretion(w1)
        THEN Result(w1, EngineResponse(FALSE, "Glyph limit reached", None, None))
        ELSE
        LET glyph_id == w1.glyph_counter + 1
            w2 == [w1 EXCEPT !.glyph_counter = glyph_id]
            glyph_class == get(msg.payload, "class", "anchor")
            intensity == get(msg.payload, "intensity", DEFAULT_INTENSITY)
            ttl == get(msg.payload, "ttl", config.default_ttl_seconds)
            explanation == get(msg.payload, "explanation", "User-declared state")
        IN  IF glyph_class \notin GlyphClass
            THEN Result(w2, Raised("ValueError"))
            ELSE IF ~FieldsValid(glyph_class, intensity, ttl, explanation)
            THEN Result(w2, Raised("ValidationError"))
            ELSE
            LET glyph == GlyphToken(glyph_id, glyph_class, intensity,
                                    msg.source, ttl, explanation)
                results == validate_transition(validators, "V-01",
                               [glyph |-> Some(glyph), mutation |-> None,
                                source |-> msg.source,
                                authenticated |-> is_authenticated(msg),
                                history |-> <<>>])
                failed == SelectSeq(results, LAMBDA r : ~r.passed)
            IN  IF failed # <<>>
                THEN Result(create_event(save_glyph(w2, glyph), "validation_failed", glyph_id,
                                         msg.source, None, None, Some(results)),
                            EngineResponse(FALSE, "Validation failed", None,
                                           Some(results)))
                ELSE Result(create_event(save_glyph(w2, glyph), "created",
                                         glyph_id, msg.source, None,
                                         Some(glyph), None),
                            EngineResponse(TRUE, "State recorded",
                                           Some(glyph_id), None))

handle_state(w, msg, order) ==
    LET w1 == run_decay_cycle(w, order)
    IN  IF ~check_accretion(w1)
        THEN Result(w1, EngineResponse(FALSE, "Glyph limit reached", None, None))
        ELSE
        LET glyph_id == w1.glyph_counter + 1
            w2 == [w1 EXCEPT !.glyph_counter = glyph_id]
            glyph_class == get(msg.payload, "class", "anchor")
            intensity == get(msg.payload, "intensity", DEFAULT_INTENSITY)
            ttl == get(msg.payload, "ttl", config.default_ttl_seconds)
            explanation == get(msg.payload, "explanation", "User-declared state")
        IN  IF glyph_class \notin GlyphClass
            THEN Result(w2, Raised("ValueError"))
            ELSE IF ~FieldsValid(glyph_class, intensity, ttl, explanation)
            THEN Result(w2, Raised("ValidationError"))
            ELSE
            LET glyph == GlyphToken(glyph_id, glyph_class, intensity,
                                    msg.source, ttl, explanation)
                results == validate_transition(validators, "V-01",
                               [glyph |-> Some(glyph), mutation |-> None,
                                source |-> msg.source,
                                authenticated |-> is_authenticated(msg),
                                history |-> <<>>])
                failed == SelectSeq(results, LAMBDA r : ~r.passed)
            IN  IF failed # <<>>
                THEN Result(create_event(w2, "validation_failed", glyph_id,
                                         msg.source, None, None, Some(results)),
                            EngineResponse(FALSE, "Validation failed", None,
                                           Some(results)))
                ELSE Result(create_event(save_glyph(w2, glyph), "created",
                                         glyph_id, msg.source, None,
                                         Some(glyph), None),
                            EngineResponse(TRUE, "State recorded",
                                           Some(glyph_id), None))

cmd_remember(w, msg, order) ==
    handle_state(w, [msg EXCEPT !.payload.ttl =
                        Some(get(msg.payload, "ttl", REMEMBER_TTL))], order)

\* load_glyph parses the file when the id is not cached; a file whose
\* fields break the constraints makes it raise
load_raises(w, glyph_id) ==
    /\ glyph_id \notin DOMAIN w.glyph_cache
    /\ glyph_id \in DOMAIN w.glyphs
    /\ ~json_valid(w.glyphs[glyph_id])

NotFound(w) == Result(w, EngineResponse(FALSE, "Glyph not found", None, None))

\* mutant of _cmd_forget: the handler without its not-found return
cmd_forget_unchecked(w, msg) ==
    Result(create_event(delete_glyph(load_world(w, msg.target_glyph_id[1]),
                                     msg.target_glyph_id[1]),
                        "forgotten", msg.target_glyph_id[1], msg.source,
                        load_result(w, msg.target_glyph_id[1]), None, None),
           EngineResponse(TRUE, "Forgot", msg.target_glyph_id, None))

cmd_forget(w, msg) ==
    LET glyph_id == msg.target_glyph_id[1]
        glyph == load_result(w, glyph_id)
        w1 == load_world(w, glyph_id)
    IN  IF load_raises(w, glyph_id) THEN Result(w, Raised("ValidationError"))
        ELSE IF glyph = None THEN NotFound(w1)
        ELSE Result(create_event(delete_glyph(w1, glyph_id), "forgotten",
                                 glyph_id, msg.source, glyph, None, None),
                    EngineResponse(TRUE, "Forgot", Some(glyph_id), None))

\* the three in-place assignments of _cmd_reframe (no validation on
\* assignment)
reframed(g, payload) ==
    [g EXCEPT !.glyph_class = get(payload, "class", @),
              !.explanation = get(payload, "explanation", @),
              !.intensity = get(payload, "intensity", @)]

\* the loaded glyph is the cached object: assigning to it changes the cache
cmd_reframe(w, msg) ==
    LET glyph_id == msg.target_glyph_id[1]
        glyph == load_result(w, glyph_id)
        w1 == load_world(w, glyph_id)
    IN  IF load_raises(w, glyph_id) THEN Result(w, Raised("ValidationError"))
        ELSE IF glyph = None THEN NotFound(w1)
        ELSE IF get(msg.payload, "class", "anchor") \notin GlyphClass
        THEN Result(w1, Raised("ValueError"))
        ELSE
        LET before_state == glyph[1]
            after == reframed(glyph[1], msg.payload)
            w2 == [w1 EXCEPT !.glyph_cache[glyph_id] = after]
        IN  IF ~is_mutation_allowed(get_scroll("S-001"), "transform")
            THEN Result(w2, EngineResponse(FALSE, "Transform not allowed", None, None))
            ELSE Result(create_event(save_glyph(w2, after), "mutated", glyph_id,
                                     msg.source, Some(before_state), Some(after), None),
                        EngineResponse(TRUE, "Reframed", Some(glyph_id), None))

cmd_audit(w, msg) ==
    IF msg.target_glyph_id # None
    THEN Result(w, EngineResponse(TRUE, "Audit for", None, None))
    ELSE Result(all_glyphs_world(w), EngineResponse(TRUE, "Audit complete", None, None))

cmd_refresh(w, msg) ==
    LET glyph_id == msg.target_glyph_id[1]
        glyph == load_result(w, glyph_id)
        w1 == load_world(w, glyph_id)
    IN  IF load_raises(w, glyph_id) THEN Result(w, Raised("ValidationError"))
        ELSE IF glyph = None THEN NotFound(w1)
        ELSE
        LET before_state == glyph[1]
            after == refresh(glyph[1],
                             get(msg.payload, "seconds", DEFAULT_REFRESH_SECONDS))
        IN  Result(create_event(save_glyph(w1, after), "refreshed", glyph_id,
                                msg.source, Some(before_state), Some(after), None),
                   EngineResponse(TRUE, "Refreshed", Some(glyph_id), None))

cmd_attenuate(w, msg) ==
    LET glyph_id == msg.target_glyph_id[1]
        glyph == load_result(w, glyph_id)
        w1 == load_world(w, glyph_id)
    IN  IF load_raises(w, glyph_id) THEN Result(w, Raised("ValidationError"))
        ELSE IF glyph = None THEN NotFound(w1)
        ELSE
        LET before_state == glyph[1]
            after == attenuate(glyph[1], get(msg.payload, "factor", DEFAULT_FACTOR))
        IN  Result(create_event(save_glyph(w1, after), "mutated", glyph_id,
                                msg.source, Some(before_state), Some(after), None),
                   EngineResponse(TRUE, "Attenuated", Some(glyph_id), None))

handle_command(w, msg, order) ==
    LET verb == msg.command_verb[1]
    IN  CASE verb = "remember" -> cmd_remember(w, msg, order)
          [] verb = "forget" -> cmd_forget(w, msg)
          [] verb = "reframe" -> cmd_reframe(w, msg)
          [] verb = "audit" -> cmd_audit(w, msg)
          [] verb = "refresh" -> cmd_refresh(w, msg)
          [] verb = "attenuate" -> cmd_attenuate(w, msg)
          [] OTHER -> Result(w, EngineResponse(FALSE, "Unknown command", None, None))

process_input(w, raw, order) ==
    IF parse_raises(raw)
    THEN Result(w, EngineResponse(FALSE, "Invalid input", None, None))
    ELSE LET msg == parse(raw)
         IN  IF config.require_auth /\ ~is_authenticated(msg)
             THEN Result(w, EngineResponse(FALSE, "Authentication required", None, None))
             ELSE CASE msg.input_type = "fact" -> handle_fact(w, msg)
                    [] msg.input_type = "state" -> handle_state(w, msg, order)
                    [] msg.input_type = "command" -> handle_command(w, msg, order)
                    [] OTHER -> Result(w, EngineResponse(FALSE, "Unknown input type", None, None))

----------------------------------------------------------------------------
(* The inputs explored *)

Payload(class, explanation, intensity, ttl, seconds, factor, content) ==
    [class |-> class, explanation |-> explanation, intensity |-> intensity,
     ttl |-> ttl, seconds |-> seconds, factor |-> factor,
     content |-> content, category |-> None]

EmptyPayload == Payload(None, None, None, None, None, None, None)

Raw(type, verb, target, payload, auth_token) ==
    [type |-> type, verb |-> verb, target |-> target, payload |-> payload,
     source |-> "user", auth_token |-> auth_token]

\* with and without a token where the token decides the outcome (creation
\* is validated, a command is not); a token otherwise
AuthTokens == {None, Some("test-token")}
Token == Some("test-token")

\* a short-lived token, and an explanation the identity check rejects
ShortLived ==
    Payload(Some("anchor"), Some("Test state glyph"), Some(70), Some(1), None, None, None)
StatePayloads ==
    {ShortLived,
     Payload(Some("mutation"), Some("This is my identity marker"), None, None, None, None, None)}
RememberPayloads == {EmptyPayload}
ReframePayloads ==
    {Payload(Some("warning"), Some("Reframed"), None, None, None, None, None)}
RefreshPayloads == {Payload(None, None, None, None, Some(3600), None, None)}
AttenuatePayloads == {Payload(None, None, None, None, None, Some(50), None)}
FactPayloads ==
    {Payload(None, None, None, None, None, None, Some("This is a durable fact"))}

\* the first ids the engine assigns (G-001 is also a genesis id), and one
\* it never assigns within the bounds
Targets == {1, 2, 9}

StateRaws ==
    {Raw(Some("state"), None, None, p, a) : p \in StatePayloads, a \in AuthTokens}
RememberRaws ==
    {Raw(Some("command"), Some("remember"), None, p, a) :
        p \in RememberPayloads, a \in AuthTokens}
ForgetRaws ==
    {Raw(Some("command"), Some("forget"), Some(t), EmptyPayload, Token) :
        t \in Targets}
ReframeRaws ==
    {Raw(Some("command"), Some("reframe"), Some(t), p, Token) :
        t \in Targets, p \in ReframePayloads}
RefreshRaws ==
    {Raw(Some("command"), Some("refresh"), Some(t), p, a) :
        t \in Targets, p \in RefreshPayloads, a \in AuthTokens}
AttenuateRaws ==
    {Raw(Some("command"), Some("attenuate"), Some(t), p, Token) :
        t \in Targets, p \in AttenuatePayloads}
AuditRaws ==
    {Raw(Some("command"), Some("audit"), t, EmptyPayload, Token) :
        t \in {None, Some(1)}}
FactRaws ==
    {Raw(Some("fact"), None, None, p, Token) : p \in FactPayloads}
InvalidRaws ==
    {Raw(None, None, None, EmptyPayload, None),
     Raw(Some("bogus"), None, None, EmptyPayload, Token),
     Raw(Some("command"), Some("forget"), None, EmptyPayload, Token)}

CreateRaws == StateRaws \cup RememberRaws
Raws == CreateRaws \cup ForgetRaws \cup ReframeRaws \cup RefreshRaws
            \cup AttenuateRaws \cup AuditRaws \cup FactRaws \cup InvalidRaws

\* the orders in which a decay sweep run now may visit the expired glyphs
Orders == Perms(DOMAIN get_expired_glyphs(World))

----------------------------------------------------------------------------
(* The engine as a state machine: GlyphEngine(config) over an empty vault, *)
(* then process_input calls, each run to completion, with the clock        *)
(* advancing between them.                                                 *)

Ceilings == {1, 2, 3}

\* GlyphStore.__init__ over an empty vault (genesis seeded through
\* save_glyph), AuditLog.__init__, ValidatorEngine.__init__, _load_scrolls
InitWith(ceilings, require_auth) ==
    /\ now = 0
    /\ config \in [max_active_glyphs : ceilings,
                   require_auth : require_auth,
                   default_ttl_seconds : {DEFAULT_TTL_SECONDS}]
    /\ glyphs = GENESIS_GLYPHS
    /\ glyph_cache = GENESIS_GLYPHS
    /\ backups = EmptyMap
    /\ transaction = None
    /\ tx_counter = 0
    /\ audit = <<>>
    /\ event_counter = 0
    /\ glyph_counter = 0
    /\ session_id = 1
    /\ scrolls = [id \in {"S-000", "S-001"} |->
                     IF id = "S-000" THEN GENESIS_SCROLL ELSE STANDARD_SCROLL]
    /\ validators = CoreValidators
    /\ facts = <<>>
    /\ scroll_files = [id \in {"S-000"} |-> GENESIS_SCROLL]
    /\ begin_glyphs = EmptyMap

Init == InitWith(Ceilings, {FALSE})

Install(w) ==
    /\ glyphs' = w.glyphs
    /\ glyph_cache' = w.glyph_cache
    /\ backups' = w.backups
    /\ transaction' = w.transaction
    /\ tx_counter' = w.tx_counter
    /\ audit' = w.audit
    /\ event_counter' = w.event_counter
    /\ glyph_counter' = w.glyph_counter
    /\ facts' = w.facts
    /\ scroll_files' = w.scroll_files

\* GlyphEngine.process_input(raw), run to completion
ProcessInput(raw, max_events) ==
    \E order \in Orders :
        \E r \in {process_input(World, raw, order)} :
            /\ Len(r.w.audit) <= max_events
            /\ Len(r.w.facts) <= MaxFacts
            /\ Install(r.w)
            /\ UNCHANGED <<now, config, session_id, scrolls, validators,
                           begin_glyphs>>

\* the clock advances to just past the expiry of a stored token
Tick ==
    /\ \E id \in DOMAIN glyphs :
          /\ glyphs[id].expires_at + 1 > now
          /\ glyphs[id].expires_at + 1 <= MaxTime
          /\ now' = glyphs[id].expires_at + 1
    /\ UNCHANGED <<config, glyphs, glyph_cache, backups, transaction, tx_counter,
                   audit, event_counter, glyph_counter, session_id, scrolls,
                   validators, facts, scroll_files, begin_glyphs>>

FactInput == \E raw \in FactRaws : ProcessInput(raw, MaxEvents)
StateInput == \E raw \in StateRaws : ProcessInput(raw, MaxEvents)
Remember == \E raw \in RememberRaws : ProcessInput(raw, MaxEvents)
Forget == \E raw \in ForgetRaws : ProcessInput(raw, MaxEvents)
Reframe == \E raw \in ReframeRaws : ProcessInput(raw, MaxEvents)
Refresh == \E raw \in RefreshRaws : ProcessInput(raw, MaxEvents)
Attenuate == \E raw \in AttenuateRaws : ProcessInput(raw, MaxEvents)
Audit == \E raw \in AuditRaws : ProcessInput(raw, MaxEvents)
InvalidInput == \E raw \in InvalidRaws : ProcessInput(raw, MaxEvents)

Next ==
    \/ Tick
    \/ FactInput
    \/ StateInput
    \/ Remember
    \/ Forget
    \/ Reframe
    \/ Refresh
    \/ Attenuate
    \/ Audit
    \/ InvalidInput

Spec == Init /\ [][Next]_vars

----------------------------------------------------------------------------
(* Vocabulary of the properties *)

ActiveCount == Cardinality(DOMAIN get_active_glyphs(World))
ExpiredIds == DOMAIN get_expired_glyphs(World)
Ceiling == config.max_active_glyphs

\* the events a request appended: those of the log after it beyond the log
\* before it
Appended(w) == SubSeq(w.audit, Len(audit) + 1, Len(w.audit))

\* a creating request the token model accepts and the validator passes:
\* it carries a token, its fields are within bounds and its explanation
\* names no identity
Acceptable(raw) ==
    LET p == raw.payload
        ttl == IF raw.type = Some("state")
               THEN get(p, "ttl", config.default_ttl_seconds)
               ELSE get(p, "ttl", REMEMBER_TTL)
    IN  /\ raw.auth_token # None
        /\ FieldsValid(get(p, "class", "anchor"),
                       get(p, "intensity", DEFAULT_INTENSITY), ttl,
                       get(p, "explanation", "User-declared state"))
        /\ ~MentionsIdentity(get(p, "explanation", "User-declared state"))

----------------------------------------------------------------------------
----------------------------------------------------------------------------
(* C2 as stated: a creating request rejected because the active count is   *)
(* at or above the ceiling leaves the stored tokens and the audit log      *)
(* exactly as they were.                                                   *)
C2_RejectedMutatesNothing ==
    \A raw \in CreateRaws, order \in Orders :
        LET r == process_input(World, raw, order)
        IN  ActiveCount >= Ceiling =>
                /\ r.w.glyphs = glyphs
                /\ r.w.audit = audit

(* C2 amended: a creating request rejected at the ceiling changes nothing   *)
(* but what its decay sweep does first: each expired token is deleted and   *)
(* one 'expired' event with source "system" is appended for it; the tokens  *)
(* that are not expired keep their content, no id is assigned and no other  *)
(* event is written, and with no expired token nothing changes at all.      *)
C2_RejectedOnlySweeps ==
    \A raw \in CreateRaws, order \in Orders :
        LET r == process_input(World, raw, order)
            new == Appended(r.w)
        IN  ActiveCount >= Ceiling =>
                /\ ~r.response.success
                /\ DOMAIN r.w.glyphs = (DOMAIN glyphs) \ ExpiredIds
                /\ \A id \in DOMAIN r.w.glyphs : r.w.glyphs[id] = glyphs[id]
                /\ r.w.glyph_counter = glyph_counter
                /\ r.w.facts = facts
                /\ Len(r.w.audit) = Len(audit) + Cardinality(ExpiredIds)
                /\ SubSeq(r.w.audit, 1, Len(audit)) = audit
                /\ {new[i].glyph_id : i \in 1..Len(new)} = ExpiredIds
                /\ \A i \in 1..Len(new) :
                      /\ new[i].event_type = "expired"
                      /\ new[i].source = "system"
                      /\ new[i].before_state = Some(glyphs[new[i].glyph_id])
                /\ (ExpiredIds = {} => (r.w.glyphs = glyphs /\ r.w.audit = audit))

\* a store at or above its ceiling that also holds an expired token, whose
\* 'expired' event a rejected request has already written once
C2_Witness ==
    /\ ActiveCount >= Ceiling
    /\ \E i \in 1..Len(audit) : audit[i].event_type = "expired"
    /\ \A raw \in CreateRaws, order \in Orders :
          process_input(World, raw, order).response.message = "Glyph limit reached"

----------------------------------------------------------------------------
(* C3: with a ceiling of at least 2, from a freshly bootstrapped vault and *)
(* after any sequence of requests with time passing between them, the      *)
(* number of active tokens never exceeds the ceiling.                      *)
C3_ActiveWithinCeiling ==
    Ceiling >= 2 => ActiveCount <= Ceiling

\* the store is at its ceiling after a creation and after a refresh that
\* revived an expired token
C3_Witness ==
    /\ Ceiling >= 2
    /\ ActiveCount = Ceiling
    /\ \E i \in 1..Len(audit) : audit[i].event_type = "created"
    /\ \E i \in 1..Len(audit) :
          /\ audit[i].event_type = "refreshed"
          /\ audit[i].timestamp > audit[i].before_state[1].expires_at

----------------------------------------------------------------------------
(* The requests that change a stored token, the mutation kind of each and  *)
(* the id of the token it writes.                                          *)
ChangingRaws == CreateRaws \cup ReframeRaws \cup RefreshRaws \cup AttenuateRaws

MutationKind(raw) ==
    IF raw.verb = Some("reframe") THEN Some("transform")
    ELSE IF raw.verb = Some("refresh") THEN Some("refresh")
    ELSE IF raw.verb = Some("attenuate") THEN Some("attenuate")
    ELSE None

WrittenId(raw) == IF raw.target = None THEN glyph_counter + 1 ELSE raw.target[1]

\* the token id is stored after the request with a content it did not have
Persisted(w, id) ==
    /\ id \in DOMAIN w.glyphs
    /\ (id \in DOMAIN glyphs => w.glyphs[id] # glyphs[id])

AllPassed(results) == \A i \in 1..Len(results) : results[i].passed

(* C4 as stated: whenever a request persists a created, reframed,          *)
(* refreshed or attenuated token, the active scroll allows the mutation    *)
(* kind of the request and the validator V-01 passes on the token that was *)
(* written, in the context of the request.                                 *)
C4_PersistOnlyAfterBothChecks ==
    \A raw \in ChangingRaws, order \in Orders :
        LET r == process_input(World, raw, order)
            id == WrittenId(raw)
            kind == MutationKind(raw)
        IN  Persisted(r.w, id) =>
                /\ (kind # None => is_mutation_allowed(get_scroll("S-001"), kind[1]))
                /\ AllPassed(validate_transition(validators, "V-01",
                       [glyph |-> Some(r.w.glyphs[id]), mutation |-> kind,
                        source |-> raw.source,
                        authenticated |-> is_authenticated(parse(raw)),
                        history |-> <<>>]))

----------------------------------------------------------------------------
(* C5 as stated: every stored token has a 'created' event in the audit log *)
(* and every request that changes, adds or removes a token appends an      *)
(* event for that token id.                                                *)
C5_StoreExplainedByLog ==
    /\ \A id \in DOMAIN glyphs :
          \E i \in 1..Len(audit) :
              audit[i].event_type = "created" /\ audit[i].glyph_id = id
    /\ \A raw \in Raws, order \in Orders :
          LET r == process_input(World, raw, order)
              new == Appended(r.w)
          IN  \A id \in (DOMAIN glyphs) \cup (DOMAIN r.w.glyphs) :
                  (\/ id \notin DOMAIN glyphs
                   \/ id \notin DOMAIN r.w.glyphs
                   \/ glyphs[id] # r.w.glyphs[id])
                  => \E i \in 1..Len(new) : new[i].glyph_id = id

----------------------------------------------------------------------------
(* The tokens the decay sweep of a request removes: a creating request     *)
(* that passes the authentication gate sweeps every expired token.         *)
Swept(raw) ==
    IF raw \in CreateRaws /\ (~config.require_auth \/ raw.auth_token # None)
    THEN ExpiredIds ELSE {}

OutcomeTypes == {"created", "validation_failed", "mutated", "refreshed", "forgotten"}

(* C6 as stated: each request that affects the token store or the log      *)
(* appends exactly one event, so that N of them leave exactly N events,    *)
(* read back in creation order with pairwise distinct ids.                 *)
C6_OneEventPerOperation ==
    /\ \A i, j \in 1..Len(read_all(audit)) :
          i < j => read_all(audit)[i].event_id < read_all(audit)[j].event_id
    /\ \A raw \in Raws, order \in Orders :
          LET r == process_input(World, raw, order)
          IN  (r.w.glyphs # glyphs \/ r.w.audit # audit) =>
                  Len(read_all(r.w.audit)) = Len(read_all(audit)) + 1

(* C6 amended: read_all returns exactly the events create_event made, in   *)
(* creation order and with pairwise distinct ids: the i-th event read has  *)
(* the i-th id and no earlier timestamp than the one before it.  A request *)
(* appends one 'expired' event per token its decay sweep removes, followed *)
(* by at most one event for its own outcome, and exactly one when it       *)
(* creates, forgets, reframes, refreshes or attenuates a token.            *)
C6_LogIsEventsCreated ==
    /\ Len(read_all(audit)) = event_counter
    /\ \A i \in 1..Len(audit) : read_all(audit)[i] = audit[i]
    /\ \A i \in 1..Len(audit) : read_all(audit)[i].event_id = i
    /\ \A i, j \in 1..Len(audit) :
          i < j => /\ read_all(audit)[i].event_id # read_all(audit)[j].event_id
                   /\ read_all(audit)[i].timestamp <= read_all(audit)[j].timestamp
    /\ \A raw \in Raws, order \in Orders :
          LET r == process_input(World, raw, order)
              new == Appended(r.w)
              k == Cardinality(Swept(raw))
          IN  /\ Len(new) \in {k, k + 1}
              /\ {new[i].glyph_id : i \in 1..k} = Swept(raw)
              /\ \A i \in 1..k : new[i].event_type = "expired"
              /\ Len(new) = k + 1 => new[k + 1].event_type \in OutcomeTypes
              /\ (r.response.success /\ raw \in ChangingRaws \cup ForgetRaws)
                    => Len(new) = k + 1

\* one request appended two events: the 'expired' event of its sweep and
\* the 'created' event of its own token
C6_Witness ==
    \E i \in 1..(Len(audit) - 1) :
        /\ audit[i].event_type = "expired"
        /\ audit[i + 1].event_type = "created"
        /\ audit[i].timestamp = audit[i + 1].timestamp
        /\ audit[i].event_id + 1 = audit[i + 1].event_id

----------------------------------------------------------------------------
(* C7: the audit log is append-only: in every step the log before it is a  *)
(* prefix of the log after it.                                             *)
C7_AppendOnly ==
    [][/\ Len(read_all(audit)) <= Len(read_all(audit'))
       /\ SubSeq(read_all(audit'), 1, Len(audit)) = read_all(audit)]_vars

\* the log has grown in two requests at different times
C7_Witness ==
    \E i \in 1..(Len(audit) - 1) : audit[i].timestamp < audit[i + 1].timestamp

----------------------------------------------------------------------------
(* The life of one token: an engine with room for it, and authenticated    *)
(* requests that create a token and attenuate, reframe, refresh and forget *)
(* the token G-001, with time passing between them.                        *)

LifeTarget == 1
LifeInit == InitWith({3}, {FALSE})

LifeCommand(verb, payload) ==
    Raw(Some("command"), Some(verb), Some(LifeTarget), payload, Token)

LifeCreate ==
    ProcessInput(Raw(Some("state"), None, None, ShortLived, Token), MaxLifeEvents)
LifeAttenuate ==
    \E p \in AttenuatePayloads : ProcessInput(LifeCommand("attenuate", p), MaxLifeEvents)
LifeReframe ==
    \E p \in ReframePayloads : ProcessInput(LifeCommand("reframe", p), MaxLifeEvents)
LifeRefresh ==
    \E p \in RefreshPayloads : ProcessInput(LifeCommand("refresh", p), MaxLifeEvents)
LifeForget == ProcessInput(LifeCommand("forget", EmptyPayload), MaxLifeEvents)

\* a second passes between two requests
LifeTick ==
    /\ now < MaxLifeTime
    /\ now' = now + 1
    /\ UNCHANGED <<config, glyphs, glyph_cache, backups, transaction, tx_counter,
                   audit, event_counter, glyph_counter, session_id, scrolls,
                   validators, facts, scroll_files, begin_glyphs>>

LifeNext ==
    \/ LifeTick
    \/ LifeCreate
    \/ LifeAttenuate
    \/ LifeReframe
    \/ LifeRefresh
    \/ LifeForget

LifecycleSpec == LifeInit /\ [][LifeNext]_vars

\* the ids the log speaks of, the events of one id in log order and their types
LoggedIds == {audit[i].glyph_id : i \in 1..Len(audit)}
EventsOf(id) == SelectSeq(audit, LAMBDA e : e.glyph_id = id)
TypesOf(events) == [i \in 1..Len(events) |-> events[i].event_type]
CountType(events, type) ==
    Cardinality({i \in 1..Len(events) : events[i].event_type = type})

\* the last after-state among events, absent when none carries one
RECURSIVE LastAfterState(_)
LastAfterState(events) ==
    IF events = <<>> THEN None
    ELSE IF events[Len(events)].after_state # None
         THEN events[Len(events)].after_state
         ELSE LastAfterState(SubSeq(events, 1, Len(events) - 1))

\* a token that was created, mutated exactly twice and then forgotten
CreatedMutatedTwiceForgotten(events) ==
    /\ Len(events) >= 4
    /\ events[1].event_type = "created"
    /\ events[Len(events)].event_type = "forgotten"
    /\ CountType(events, "created") = 1
    /\ CountType(events, "mutated") = 2
    /\ CountType(events, "forgotten") = 1

----------------------------------------------------------------------------
(* C8: for a token that was created, mutated twice and then forgotten,     *)
(* reconstruct_glyph_history reports exactly one creation event (the       *)
(* token's 'created' event), exactly two mutation events (its 'mutated'    *)
(* events, in order), a timeline with every event of the token, and as     *)
(* current state the last after-state recorded before the deletion.        *)
C8_Archaeology ==
    \A id \in LoggedIds :
        LET events == EventsOf(id)
            history == reconstruct_glyph_history(audit, id)
        IN  CreatedMutatedTwiceForgotten(events) =>
                /\ history.glyph_id = id
                /\ history.total_events = Len(events)
                /\ history.creation_event = Some(timeline_entry(events[1]))
                /\ history.mutations =
                      SelectSeq([i \in 1..Len(events) |-> timeline_entry(events[i])],
                                LAMBDA t : t.type = "mutated")
                /\ Len(history.mutations) = 2
                /\ history.timeline =
                      [i \in 1..Len(events) |-> timeline_entry(events[i])]
                /\ history.current_state = LastAfterState(events)
                /\ history.current_state # None
                /\ history.current_state # events[1].after_state

\* the token G-001 was created, mutated twice and forgotten, and is gone
C8_Witness ==
    /\ CreatedMutatedTwiceForgotten(EventsOf(LifeTarget))
    /\ LifeTarget \notin DOMAIN glyphs

----------------------------------------------------------------------------
(* C9: a successful forget removes the token (a later load returns         *)
(* absent), appends a 'forgotten' event whose before-state is the token as *)
(* it was loaded, and the reconstructed timeline of the token lists its    *)
(* events in the order of the operations (created, mutated, refreshed,     *)
(* forgotten).                                                             *)
C9_ForgetIsVisible ==
    /\ \A raw \in ForgetRaws, order \in Orders :
          LET r == process_input(World, raw, order)
              id == raw.target[1]
              last == r.w.audit[Len(r.w.audit)]
          IN  r.response.success =>
                  /\ load_result(World, id) # None
                  /\ load_result(r.w, id) = None
                  /\ id \notin list_glyphs(r.w)
                  /\ Len(r.w.audit) = Len(audit) + 1
                  /\ last.event_type = "forgotten"
                  /\ last.glyph_id = id
                  /\ last.before_state = load_result(World, id)
                  /\ last.after_state = None
                  /\ LET timeline == reconstruct_glyph_history(r.w.audit, id).timeline
                     IN  timeline[Len(timeline)] = timeline_entry(last)
    /\ \A id \in LoggedIds :
          reconstruct_glyph_history(audit, id).timeline =
              [i \in 1..Len(EventsOf(id)) |-> timeline_entry(EventsOf(id)[i])]

\* the token G-001 was created, mutated, refreshed and forgotten at four
\* different times, its history lists them so, and a load finds nothing
C9_Witness ==
    /\ TypesOf(EventsOf(LifeTarget)) = <<"created", "mutated", "refreshed", "forgotten">>
    /\ \A i \in 1..3 : EventsOf(LifeTarget)[i].timestamp < EventsOf(LifeTarget)[i + 1].timestamp
    /\ [i \in 1..4 |-> reconstruct_glyph_history(audit, LifeTarget).timeline[i].type]
          = <<"created", "mutated", "refreshed", "forgotten">>
    /\ load_result(World, LifeTarget) = None

----------------------------------------------------------------------------
(* The store by itself: transactions around saves, loads and deletions of  *)
(* the tokens G-001 (a genesis token) and G-002, and, in VaultSpec, a new  *)
(* GlyphStore constructed over the same durable root.                      *)

StoreIds == {1, 2}
StoreTokens ==
    {GlyphToken(1, "warning", 30, "user", 3600, "Changed"),
     GlyphToken(2, "anchor", 50, "user", 3600, "Added")}

StoreInit == InitWith({3}, {FALSE})

\* save_scroll writes scrolls/<scroll id>.json
save_scroll(w, scroll) ==
    [w EXCEPT !.scroll_files = Put(@, scroll.scroll_id, scroll)]

\* mutant of _ensure_genesis: the genesis state is seeded over any root
ensure_genesis_always(w) ==
    save_scroll(save_glyph(save_glyph(w, GENESIS_GLYPHS[0]), GENESIS_GLYPHS[1]),
                GENESIS_SCROLL)

\* _ensure_genesis: an empty glyph directory is seeded with the genesis
\* glyphs and the genesis scroll
ensure_genesis(w) ==
    IF list_glyphs(w) = {}
    THEN save_scroll(save_glyph(save_glyph(w, GENESIS_GLYPHS[0]),
                                GENESIS_GLYPHS[1]),
                     GENESIS_SCROLL)
    ELSE w

\* GlyphStore.__init__ over a root that already holds files
store_init(w) ==
    ensure_genesis([w EXCEPT !.transaction = None, !.tx_counter = 0,
                             !.glyph_cache = EmptyMap])

StoreInstall(w, ghost) ==
    /\ Install(w)
    /\ begin_glyphs' = ghost
    /\ UNCHANGED <<now, config, session_id, scrolls, validators>>

\* room in the transaction's operation log
OpsRoom ==
    IF transaction = None THEN TRUE ELSE Len(transaction[1].operations) < MaxOps

Begin ==
    /\ tx_counter < MaxTx
    /\ StoreInstall(begin_transaction_call(World).w,
                    IF begin_transaction_call(World).raised
                    THEN begin_glyphs ELSE glyphs)
Commit ==
    /\ commit_result(World)
    /\ StoreInstall(commit_transaction(World), begin_glyphs)
Rollback ==
    /\ rollback_result(World)
    /\ StoreInstall(rollback_transaction(World), begin_glyphs)
SaveGlyph ==
    /\ OpsRoom
    /\ \E g \in StoreTokens : StoreInstall(save_glyph(World, g), begin_glyphs)
DeleteGlyph ==
    /\ OpsRoom
    /\ \E id \in StoreIds :
          /\ delete_result(World, id)
          /\ StoreInstall(delete_glyph(World, id), begin_glyphs)
LoadGlyph ==
    /\ glyph_cache # glyphs
    /\ \E id \in StoreIds : StoreInstall(load_world(World, id), begin_glyphs)
Reopen ==
    /\ tx_counter > 0
    /\ StoreInstall(store_init(World), EmptyMap)

StoreNext ==
    \/ Begin
    \/ Commit
    \/ Rollback
    \/ SaveGlyph
    \/ DeleteGlyph
    \/ LoadGlyph

StoreSpec == StoreInit /\ [][StoreNext]_vars

VaultNext ==
    \/ StoreNext
    \/ Reopen

VaultSpec == StoreInit /\ [][VaultNext]_vars

----------------------------------------------------------------------------
(* C10 as stated: whatever the token set at begin_transaction and whatever *)
(* was saved and deleted since, a rollback restores exactly the token set  *)
(* of the begin: the same ids, a load of a token created inside the        *)
(* transaction returns absent and a load of a token that existed returns   *)
(* its content of before the transaction.                                  *)
C10_RollbackRestoresBegin ==
    transaction # None =>
        LET w == rollback_transaction(World)
        IN  /\ list_glyphs(w) = DOMAIN begin_glyphs
            /\ \A id \in {0} \cup StoreIds :
                  load_result(w, id) = IF id \in DOMAIN begin_glyphs
                                       THEN Some(begin_glyphs[id]) ELSE None

----------------------------------------------------------------------------
(* C11: a store instance has at most one transaction open: it holds at     *)
(* most one backup, the backup of the open transaction, and                *)
(* begin_transaction while a transaction is open raises and leaves the     *)
(* open transaction, its backup, the transaction counter and the token set *)
(* as they were.                                                           *)
C11_SingleTransaction ==
    /\ Len(transaction) <= 1
    /\ DOMAIN backups =
          IF transaction = None THEN {} ELSE {transaction[1].transaction_id}
    /\ transaction # None =>
          LET r == begin_transaction_call(World)
          IN  /\ r.raised
              /\ r.w.transaction = transaction
              /\ r.w.backups = backups
              /\ r.w.tx_counter = tx_counter
              /\ r.w.glyphs = glyphs
              /\ r.w.glyph_cache = glyph_cache

\* the second transaction of the instance is open and has logged operations
C11_Witness ==
    /\ transaction # None
    /\ tx_counter = 2
    /\ Len(transaction[1].operations) >= 1
    /\ begin_transaction_call(World).raised

----------------------------------------------------------------------------
\* the stored tokens whose expiry lies before the present instant
StoredExpired == {id \in DOMAIN glyphs : glyphs[id].expires_at < now}

\* how many of the events are 'expired' events of the token id
ExpiredEventsOf(events, id) ==
    Cardinality({i \in 1..Len(events) :
                    events[i].event_type = "expired" /\ events[i].glyph_id = id})

(* C12: decay is idempotent.  A sweep removes every expired token and      *)
(* appends exactly one 'expired' event for each; a second sweep right      *)
(* after it, at the same instant, finds nothing expired, removes nothing   *)
(* and appends nothing.                                                    *)
C12_DecayIdempotent ==
    \A order \in Orders :
        LET w1 == run_decay_cycle(World, order)
            new == Appended(w1)
        IN  /\ DOMAIN w1.glyphs = (DOMAIN glyphs) \ StoredExpired
            /\ \A id \in DOMAIN w1.glyphs : w1.glyphs[id] = glyphs[id]
            /\ Len(new) = Cardinality(StoredExpired)
            /\ \A id \in StoredExpired : ExpiredEventsOf(new, id) = 1
            /\ DOMAIN get_expired_glyphs(w1) = {}
            /\ \A order2 \in Perms(DOMAIN get_expired_glyphs(w1)) :
                  LET w2 == run_decay_cycle(w1, order2)
                  IN  /\ w2.glyphs = w1.glyphs
                      /\ w2.glyph_cache = w1.glyph_cache
                      /\ w2.audit = w1.audit
                      /\ w2.event_counter = w1.event_counter

\* two tokens are stored and expired at once, so that a sweep, in either
\* order, has two tokens to remove and the sweep after it none
C12_Witness ==
    /\ Cardinality(StoredExpired) = 2
    /\ Cardinality(Orders) = 2
    /\ \A order \in Orders :
          /\ Len(run_decay_cycle(World, order).audit) = Len(audit) + 2
          /\ DOMAIN get_expired_glyphs(run_decay_cycle(World, order)) = {}

----------------------------------------------------------------------------
(* C13: a state-creating request first removes exactly the tokens expired  *)
(* at that moment and appends one 'expired' event with source "system" for *)
(* each, before anything else it writes and also when the accretion check  *)
(* then rejects it; the sweep leaves every other token as it was, and the  *)
(* request ends as it would have on the store already swept.               *)
C13_SweepBeforeAccretion ==
    \A raw \in CreateRaws, order \in Orders :
        LET r == process_input(World, raw, order)
            new == Appended(r.w)
            k == Cardinality(StoredExpired)
            created == IF r.response.success THEN {glyph_counter + 1} ELSE {}
            direct == process_input(run_decay_cycle(World, order), raw, <<>>)
        IN  /\ Len(new) >= k
            /\ \A i \in 1..Len(new) :
                  IF i <= k
                  THEN /\ new[i].event_type = "expired"
                       /\ new[i].source = "system"
                       /\ new[i].glyph_id \in StoredExpired
                       /\ new[i].before_state = Some(glyphs[new[i].glyph_id])
                  ELSE new[i].event_type # "expired"
            /\ \A id \in StoredExpired : ExpiredEventsOf(new, id) = 1
            /\ \A id \in StoredExpired \ created : id \notin DOMAIN r.w.glyphs
            /\ \A id \in ((DOMAIN glyphs) \ StoredExpired) \ created :
                  id \in DOMAIN r.w.glyphs /\ r.w.glyphs[id] = glyphs[id]
            /\ r.response = direct.response
            /\ r.w.glyphs = direct.w.glyphs

\* a request has just swept an expired token, which is gone, while the
\* token that was not expired is still stored
C13_Witness ==
    /\ Len(audit) >= 1
    /\ audit[Len(audit)].event_type = "expired"
    /\ audit[Len(audit)].source = "system"
    /\ audit[Len(audit)].timestamp = now
    /\ audit[Len(audit)].before_state[1].expires_at < now
    /\ audit[Len(audit)].glyph_id \notin DOMAIN glyphs
    /\ 0 \in DOMAIN glyphs /\ glyphs[0] = GENESIS_GLYPHS[0]

----------------------------------------------------------------------------
(* C14 as stated: every stored token has expiry = creation time + TTL, and *)
(* a successful refresh by s seconds adds exactly s to the TTL of its      *)
(* target and leaves the expiry at creation time + the new TTL.            *)
C14_ExpiryIsCreationPlusTtl ==
    /\ \A id \in DOMAIN glyphs :
          glyphs[id].expires_at = glyphs[id].created_at + glyphs[id].ttl_seconds
    /\ \A raw \in RefreshRaws, order \in Orders :
          LET r == process_input(World, raw, order)
              id == raw.target[1]
              s == get(raw.payload, "seconds", DEFAULT_REFRESH_SECONDS)
          IN  r.response.success =>
                  /\ r.w.glyphs[id].ttl_seconds = glyphs[id].ttl_seconds + s
                  /\ r.w.glyphs[id].expires_at =
                        r.w.glyphs[id].created_at + r.w.glyphs[id].ttl_seconds

----------------------------------------------------------------------------
(* Requests with arbitrary payload values: an empty explanation, an        *)
(* intensity or a TTL outside the bounds of the token model, a negative    *)
(* number of seconds, a factor above 1.                                    *)

PayloadInit == InitWith({3}, {FALSE})
PayloadTargets == {1, 2}

AnyStatePayloads ==
    {Payload(Some("anchor"), Some(""), None, None, None, None, None),
     Payload(None, Some("Too strong"), Some(150), None, None, None, None),
     Payload(None, Some("No time to live"), None, Some(0), None, None, None)}
AnyRememberPayloads ==
    {Payload(None, Some(""), None, None, None, None, None)}
AnyReframePayloads ==
    {Payload(None, None, Some(150), None, None, None, None),
     Payload(None, None, Some(-50), None, None, None, None),
     Payload(None, Some(""), None, None, None, None, None)}
AnyRefreshPayloads ==
    {Payload(None, None, None, None, Some(-90000), None, None),
     Payload(None, None, None, None, Some(3600), None, None)}
AnyAttenuatePayloads ==
    {Payload(None, None, None, None, None, Some(200), None),
     Payload(None, None, None, None, None, Some(50), None),
     Payload(None, None, None, None, None, Some(0), None)}

AnyCommand(verb, target, payload) ==
    Raw(Some("command"), Some(verb), target, payload, Token)

\* a request of the engine, while ids and log stay within the bounds
AnyInput(raw) ==
    /\ ProcessInput(raw, MaxPayloadEvents)
    /\ glyph_counter' <= MaxPayloadIds

AnyState ==
    /\ glyph_counter < MaxPayloadIds
    /\ \E p \in AnyStatePayloads : AnyInput(Raw(Some("state"), None, None, p, Token))
AnyRemember ==
    /\ glyph_counter < MaxPayloadIds
    /\ \E p \in AnyRememberPayloads : AnyInput(AnyCommand("remember", None, p))
AnyReframe ==
    /\ Len(audit) < MaxPayloadEvents
    /\ \E t \in PayloadTargets, p \in AnyReframePayloads :
          AnyInput(AnyCommand("reframe", Some(t), p))
AnyRefresh ==
    /\ Len(audit) < MaxPayloadEvents
    /\ \E t \in PayloadTargets, p \in AnyRefreshPayloads :
          AnyInput(AnyCommand("refresh", Some(t), p))
AnyAttenuate ==
    /\ Len(audit) < MaxPayloadEvents
    /\ \E t \in PayloadTargets, p \in AnyAttenuatePayloads :
          AnyInput(AnyCommand("attenuate", Some(t), p))

PayloadNext ==
    \/ AnyState
    \/ AnyRemember
    \/ AnyReframe
    \/ AnyRefresh
    \/ AnyAttenuate

PayloadSpec == PayloadInit /\ [][PayloadNext]_vars

----------------------------------------------------------------------------
(* C15 as stated: for every factor f >= 0, attenuate(f) leaves an          *)
(* intensity that is at most the intensity before it and never negative,   *)
(* both as a token operation and as the engine's attenuate command.        *)
C15_AttenuateNonIncreasing ==
    /\ \A id \in DOMAIN glyphs, p \in AnyAttenuatePayloads :
          p.factor[1] >= 0 =>
              /\ attenuate(glyphs[id], p.factor[1]).intensity <= glyphs[id].intensity
              /\ attenuate(glyphs[id], p.factor[1]).intensity >= 0
    /\ \A t \in PayloadTargets, p \in AnyAttenuatePayloads, order \in Orders :
          LET r == process_input(World, AnyCommand("attenuate", Some(t), p), order)
          IN  (p.factor[1] >= 0 /\ r.response.success /\ t \in DOMAIN glyphs) =>
                  /\ r.w.glyphs[t].intensity <= glyphs[t].intensity
                  /\ r.w.glyphs[t].intensity >= 0

(* C16 as stated: after any sequence of requests with arbitrary payloads,  *)
(* every stored token has a TTL of at least one second.                    *)
C16_TtlPositive ==
    \A id \in DOMAIN glyphs : glyphs[id].ttl_seconds >= 1

(* C17 as stated: after any sequence of requests with arbitrary payloads,  *)
(* every stored token has an intensity between 0 and 1 (0 and 100 percent).*)
C17_IntensityBounded ==
    \A id \in DOMAIN glyphs :
        glyphs[id].intensity >= 0 /\ glyphs[id].intensity <= 100

(* C18 as stated: after any sequence of requests with arbitrary payloads,  *)
(* every stored token has a non-empty explanation.                         *)
C18_ExplanationNonEmpty ==
    \A id \in DOMAIN glyphs : ExplanationLen(glyphs[id].explanation) >= 1

----------------------------------------------------------------------------
(* The validator registry by itself: the registered validators are Python  *)
(* objects in a public dict, so that a caller can change the check list of *)
(* one (add, remove, rename a check, change its criticality or its         *)
(* description) or drop it from the dict; nothing recomputes the checksum. *)

ValidatorIds == {"V-00", "V-01", "V-02"}
UnknownIds == {"V-99"}
ValidatorInit == InitWith({3}, {FALSE})

AddedCheck == Check("always_passes", "Added after registration", FALSE)

\* how far the checks of a registered validator are from those registered
CheckDistance(registry, id) ==
    IF id \notin DOMAIN registry THEN 1
    ELSE LET old == CoreValidators[id].checks
             new == registry[id].checks
             common == IF Len(old) < Len(new) THEN Len(old) ELSE Len(new)
         IN  Cardinality({i \in 1..common : old[i] # new[i]})
                 + (Len(old) - common) + (Len(new) - common)
                 + (IF registry[id].checksum = CoreValidators[id].checksum
                    THEN 0 ELSE 1)

TamperDistance(registry) ==
    CheckDistance(registry, "V-00") + CheckDistance(registry, "V-01")
        + CheckDistance(registry, "V-02")

RemoveAt(seq, i) == SubSeq(seq, 1, i - 1) \o SubSeq(seq, i + 1, Len(seq))

\* validator.checks = checks, the stored checksum left alone
SetChecks(id, checks) ==
    /\ validators' = [validators EXCEPT ![id].checks = checks]
    /\ TamperDistance(validators') <= MaxTamper
    /\ UNCHANGED <<now, config, glyphs, glyph_cache, backups, transaction,
                   tx_counter, audit, event_counter, glyph_counter, session_id,
                   scrolls, facts, scroll_files, begin_glyphs>>

AddCheck ==
    /\ TamperDistance(validators) < MaxTamper
    /\ \E id \in DOMAIN validators :
          SetChecks(id, Append(validators[id].checks, AddedCheck))
RemoveCheck ==
    /\ TamperDistance(validators) < MaxTamper
    /\ \E id \in DOMAIN validators :
          \E i \in 1..Len(validators[id].checks) :
              SetChecks(id, RemoveAt(validators[id].checks, i))
RenameCheck ==
    /\ TamperDistance(validators) < MaxTamper
    /\ \E id \in DOMAIN validators :
          \E i \in 1..Len(validators[id].checks) :
              SetChecks(id, [validators[id].checks EXCEPT ![i].name = "renamed"])
ChangeCritical ==
    /\ TamperDistance(validators) < MaxTamper
    /\ \E id \in DOMAIN validators :
          \E i \in 1..Len(validators[id].checks) :
              SetChecks(id, [validators[id].checks EXCEPT
                               ![i].is_critical = ~validators[id].checks[i].is_critical])
ChangeDescription ==
    /\ TamperDistance(validators) < MaxTamper
    /\ \E id \in DOMAIN validators :
          \E i \in 1..Len(validators[id].checks) :
              SetChecks(id, [validators[id].checks EXCEPT ![i].description = "Edited"])
\* del engine.validators[id]
DropValidator ==
    /\ TamperDistance(validators) < MaxTamper
    /\ \E id \in DOMAIN validators :
          /\ validators' = [v \in (DOMAIN validators) \ {id} |-> validators[v]]
          /\ UNCHANGED <<now, config, glyphs, glyph_cache, backups, transaction,
                         tx_counter, audit, event_counter, glyph_counter,
                         session_id, scrolls, facts, scroll_files, begin_glyphs>>

\* v.checksum = v.compute_checksum(), as registration does
Reseal ==
    /\ TamperDistance(validators) < MaxTamper
    /\ \E id \in DOMAIN validators :
          /\ ~verify_integrity(validators[id])
          /\ validators' = [validators EXCEPT
                               ![id].checksum = Some(compute_checksum(validators[id]))]
          /\ TamperDistance(validators') <= MaxTamper
          /\ UNCHANGED <<now, config, glyphs, glyph_cache, backups, transaction,
                         tx_counter, audit, event_counter, glyph_counter,
                         session_id, scrolls, facts, scroll_files, begin_glyphs>>

ValidatorNext ==
    \/ Reseal
    \/ AddCheck
    \/ RemoveCheck
    \/ RenameCheck
    \/ ChangeCritical
    \/ ChangeDescription
    \/ DropValidator

ValidatorSpec == ValidatorInit /\ [][ValidatorNext]_vars

\* contexts of a call: one every check passes on, one that fails checks
Contexts ==
    {[glyph |-> Some(GENESIS_GLYPHS[0]), mutation |-> None, source |-> "user",
      authenticated |-> TRUE, history |-> <<>>],
     [glyph |-> Some([GENESIS_GLYPHS[1] EXCEPT
                         !.explanation = "This is my identity marker"]),
      mutation |-> Some("amplify"), source |-> "unknown",
      authenticated |-> FALSE, history |-> <<>>],
     [glyph |-> None, mutation |-> None, source |-> "system",
      authenticated |-> TRUE, history |-> <<>>]}

IntegrityFailure(id) ==
    <<ValidatorResult(FALSE, id, "validator_integrity",
                      "Validator failed integrity check", "halt")>>

----------------------------------------------------------------------------
(* C19 as stated: once the check list of a registered validator differs    *)
(* from the one its checksum was computed over (a check added, removed,    *)
(* renamed, or any field of a check changed), validate_transition against  *)
(* it returns the single failing integrity result with action halt,        *)
(* whatever the context.                                                   *)
C19_TamperingDetected ==
    \A id \in DOMAIN validators, context \in Contexts :
        (/\ validators[id].checks # CoreValidators[id].checks
         /\ validators[id].checksum = CoreValidators[id].checksum)
        => validate_transition(validators, id, context) = IntegrityFailure(id)

----------------------------------------------------------------------------
(* C20: validate_transition with a validator id that is not in the         *)
(* registry returns exactly one result, failing, with action halt, named   *)
(* after no check of any validator; never an empty or passing result.      *)
C20_UnknownValidatorFails ==
    \A id \in (ValidatorIds \cup UnknownIds) \ DOMAIN validators,
       context \in Contexts :
        LET results == validate_transition(validators, id, context)
        IN  /\ Len(results) = 1
            /\ ~results[1].passed
            /\ results[1].action = "halt"
            /\ results[1].validator_id = id
            /\ results[1].check_name = "validator_exists"
            /\ \A v \in ValidatorIds : \A i \in 1..Len(CoreValidators[v].checks) :
                  results[1].check_name # CoreValidators[v].checks[i].name

\* V-01, the validator the engine validates creations with, is no longer
\* registered, and a call against it fails with the one halt result
C20_Witness ==
    /\ "V-01" \notin DOMAIN validators
    /\ "V-00" \in DOMAIN validators
    /\ \A context \in Contexts :
          /\ Len(validate_transition(validators, "V-01", context)) = 1
          /\ ~validate_transition(validators, "V-01", context)[1].passed

----------------------------------------------------------------------------
(* C21: the results of a call against a known, intact validator.           *)

\* the contexts of C21: every built-in failing condition, alone and after
\* a failing non-critical check
CheckGlyphs ==
    {None, Some(GENESIS_GLYPHS[0]),
     Some([GENESIS_GLYPHS[1] EXCEPT !.explanation = "This is my identity marker"]),
     Some([GENESIS_GLYPHS[0] EXCEPT !.intensity = 150]),
     Some([GENESIS_GLYPHS[0] EXCEPT !.intensity = 150, !.ttl_seconds = 0])}
CheckHistories ==
    {<<>>, [i \in 1..3 |-> [mutation |-> "amplify"]]}
CheckContext(glyph, source, authenticated, history) ==
    [glyph |-> glyph, mutation |-> None, source |-> source,
     authenticated |-> authenticated, history |-> history]
CheckContexts ==
    {CheckContext(g, "user", TRUE, <<>>) : g \in CheckGlyphs}
        \cup {CheckContext(Some([GENESIS_GLYPHS[0] EXCEPT !.intensity = 150]),
                           s[1], s[2], <<>>) :
                  s \in {<<"user", FALSE>>, <<"unknown", TRUE>>}}
        \cup {CheckContext(g, "user", TRUE, h) :
                  g \in {None, Some([GENESIS_GLYPHS[0] EXCEPT !.intensity = 150])},
                  h \in CheckHistories \ {<<>>}}

BuiltinChecks ==
    {"no_identity_fixation", "ttl_required", "no_recursive_amplification",
     "authentication_required", "max_intensity"}

\* the first check of v that fails on context and is critical, 0 if none
FirstCriticalFailure(v, context) ==
    LET stops == {i \in 1..Len(v.checks) :
                     /\ v.checks[i].is_critical
                     /\ ~run_check(v.checks[i], context, v).passed}
    IN  IF stops = {} THEN 0
        ELSE CHOOSE i \in stops : \A j \in stops : i <= j

(* C21: for a registered validator whose checksum matches, the results are *)
(* one per check in declaration order, the whole list when no critical     *)
(* check fails and otherwise the prefix ending at the first failing        *)
(* critical check; a failing non-critical check stops nothing; a check     *)
(* whose name is none of the built-in ones passes.                         *)
C21_ResultsPerCheck ==
    \A id \in DOMAIN validators, context \in CheckContexts :
        verify_integrity(validators[id]) =>
            \A results \in {validate_transition(validators, id, context)},
               stop \in {FirstCriticalFailure(validators[id], context)} :
                LET v == validators[id]
                IN  /\ Len(results) = (IF stop = 0 THEN Len(v.checks) ELSE stop)
                    /\ \A i \in 1..Len(results) :
                          /\ results[i] = run_check(v.checks[i], context, v)
                          /\ results[i].check_name = v.checks[i].name
                          /\ results[i].validator_id = id
                          /\ v.checks[i].name \notin BuiltinChecks
                                => results[i].passed
                          /\ (~results[i].passed /\ i < Len(results))
                                => ~v.checks[i].is_critical

\* V-01 resealed after a rename: one context stops it at a critical
\* failure short of the end, another fails the non-critical max_intensity
\* check and still runs the check after it
C21_Witness ==
    /\ "V-01" \in DOMAIN validators
    /\ verify_integrity(validators["V-01"])
    /\ Len(validators["V-01"].checks) = 5
    /\ validators["V-01"].checks[1].name = "renamed"
    /\ validators["V-01"].checks[4].name = "max_intensity"
    /\ \E context \in CheckContexts :
          LET results == validate_transition(validators, "V-01", context)
          IN  Len(results) = 2 /\ results[1].passed /\ ~results[2].passed
    /\ \E context \in CheckContexts :
          LET results == validate_transition(validators, "V-01", context)
          IN  Len(results) = 5 /\ ~results[4].passed /\ results[5].passed

----------------------------------------------------------------------------
(* The engine under either setting of require_auth: requests that carry a *)
(* token, requests of source "system" (authenticated without a token),     *)
(* and requests with neither, over a clock that lets short-lived tokens    *)
(* expire.                                                                 *)

AuthInit == InitWith({3}, BOOLEAN)

Sources == {"user", "agent"}

\* a request without a token from a source other than "system"
Anonymous(raw, source) == [raw EXCEPT !.auth_token = None, !.source = source]
AnonymousRaws == {Anonymous(raw, source) : raw \in Raws, source \in Sources}

AuthCreate ==
    /\ Len(audit) < MaxEvents
    /\ \E auth \in {<<"user", Token>>, <<"system", None>>} :
          ProcessInput([Raw(Some("state"), None, None, ShortLived, auth[2])
                            EXCEPT !.source = auth[1]], MaxEvents)
AuthForget ==
    /\ Len(audit) < MaxEvents
    /\ \E raw \in ForgetRaws : ProcessInput(raw, MaxEvents)
AuthFact ==
    /\ Len(facts) < MaxFacts
    /\ \E raw \in FactRaws : ProcessInput(raw, MaxEvents)
AnonymousInput ==
    /\ config.require_auth
    /\ \E raw \in Raws : ProcessInput(Anonymous(raw, "user"), MaxEvents)

\* inputs InputParser.parse rejects: no kind, an unknown kind, an unknown
\* verb, a command without a verb, a target verb without a target; each with
\* a token and a payload that a well-formed request would act on
ShapeErrorRaws ==
    {Raw(None, Some("remember"), Some(1), ShortLived, Token),
     Raw(Some("bogus"), Some("forget"), Some(1), ShortLived, Token),
     Raw(Some("command"), Some("bogus"), Some(1), ShortLived, Token),
     Raw(Some("command"), None, Some(1), ShortLived, Token),
     Raw(Some("state"), Some("bogus"), None, ShortLived, Token)}
        \cup {Raw(Some("command"), Some(verb), None, ShortLived, Token) :
                  verb \in TargetVerbs}

ShapeError ==
    /\ Len(audit) <= MaxEvents
    /\ \E raw \in ShapeErrorRaws : ProcessInput(raw, MaxEvents)

AuthAudit ==
    /\ Len(audit) <= MaxEvents
    /\ \E raw \in AuditRaws : ProcessInput(raw, MaxEvents)

AuthNext ==
    \/ ShapeError
    \/ AuthAudit
    \/ LifeTick
    \/ AuthCreate
    \/ AuthForget
    \/ AuthFact
    \/ AnonymousInput

AuthSpec == AuthInit /\ [][AuthNext]_vars

(* C22: with require_auth set, an input with no token whose source is not  *)
(* "system" gets a failure response and changes nothing: no fact, token or *)
(* audit event is written, no token is deleted (the expired ones stay: no  *)
(* sweep ran), and the response of a well-formed one is the same whatever  *)
(* its kind.                                                               *)
C22_UnauthenticatedRejected ==
    config.require_auth =>
        \A raw \in AnonymousRaws, order \in Orders :
            \A r \in {process_input(World, raw, order)} :
                /\ r.w = World
                /\ ~r.response.success
                /\ ~r.response.raised
                /\ r.response.message \in {"Authentication required", "Invalid input"}
                /\ ~parse_raises(raw) => r.response.message = "Authentication required"

\* an expired token is stored and there is room under the ceiling: the
\* same state request with a token sweeps and creates, without one nothing
C22_Witness ==
    /\ config.require_auth
    /\ StoredExpired # {}
    /\ audit # <<>>
    /\ \E order \in Orders :
          LET raw == Raw(Some("state"), None, None, ShortLived, Token)
              with == process_input(World, raw, order)
              without == process_input(World, Anonymous(raw, "user"), order)
          IN  /\ with.response.success
              /\ Len(with.w.audit) = Len(audit) + 2
              /\ without.w = World
              /\ ~without.response.success

----------------------------------------------------------------------------
(* C23: an input with no kind, an unknown kind, an unknown verb, a command *)
(* without a verb, or a forget/reframe/refresh/attenuate command without a *)
(* target gets the failure response of the parser and leaves the token     *)
(* store, the fact store and the audit log (and every counter) unchanged.  *)
C23_ShapeErrorsChangeNothing ==
    \A raw \in ShapeErrorRaws, order \in Orders :
        \A r \in {process_input(World, raw, order)} :
            /\ r.w = World
            /\ ~r.response.success
            /\ ~r.response.raised
            /\ r.response.message = "Invalid input"
            /\ r.response.glyph_id = None

\* tokens beyond genesis and an expired one are stored, the log is not
\* empty: forget G-001 with its target deletes and logs, without it nothing
C23_Witness ==
    /\ StoredExpired # {}
    /\ audit # <<>>
    /\ 1 \in DOMAIN glyphs
    /\ \E order \in Orders :
          LET good == Raw(Some("command"), Some("forget"), Some(1), EmptyPayload, Token)
              bad == Raw(Some("command"), Some("forget"), None, ShortLived, Token)
          IN  /\ process_input(World, good, order).response.success
              /\ 1 \notin DOMAIN process_input(World, good, order).w.glyphs
              /\ bad \in ShapeErrorRaws
              /\ process_input(World, bad, order).w = World
              /\ ~process_input(World, bad, order).response.success

----------------------------------------------------------------------------
(* C24: commands on a token id the store does not hold.                    *)

\* ids a command may name: genesis ids, ids the engine assigns within the
\* bounds, and one it never assigns
CommandTargets == {0, 1, 2, 3, 9}
TargetPayloads ==
    {EmptyPayload} \cup ReframePayloads \cup RefreshPayloads \cup AttenuatePayloads

(* C24: a forget, reframe, refresh or attenuate command naming an id that  *)
(* is not in the store gets the 'not found' failure response, appends no   *)
(* audit event and leaves the token store (and everything else) unchanged. *)
C24_AbsentTargetNotFound ==
    \A verb \in TargetVerbs, target \in CommandTargets \ DOMAIN glyphs :
        \A payload \in TargetPayloads, order \in Orders :
            \A r \in {process_input(World,
                          Raw(Some("command"), Some(verb), Some(target),
                              payload, Token), order)} :
                /\ ~r.response.success
                /\ ~r.response.raised
                /\ r.response.message = "Glyph not found"
                /\ r.w.audit = audit
                /\ r.w.glyphs = glyphs
                /\ r.w = World

\* G-001 was forgotten: it is logged but no longer stored, and a refresh
\* of it, like a reframe of the never assigned G-009, is answered 'not found'
C24_Witness ==
    /\ 1 \notin DOMAIN glyphs
    /\ \E i \in 1..Len(audit) :
          audit[i].glyph_id = 1 /\ audit[i].event_type = "forgotten"
    /\ \A order \in Orders :
          LET refresh1 == process_input(World, Raw(Some("command"), Some("refresh"),
                                            Some(1), EmptyPayload, Token), order)
              reframe9 == process_input(World, Raw(Some("command"), Some("reframe"),
                                            Some(9), EmptyPayload, Token), order)
          IN  /\ ~refresh1.response.success /\ refresh1.w = World
              /\ ~reframe9.response.success /\ reframe9.w = World

----------------------------------------------------------------------------
(* C25: requests whose payload the token model rejects.                    *)

\* state and remember requests with a class outside GlyphClass, an
\* intensity above 1, a TTL of 0; a reframe of a stored token to a class
\* outside GlyphClass
OutOfBoundsPayloads ==
    {Payload(Some("bogus"), Some("No such class"), None, None, None, None, None),
     Payload(None, Some("Too strong"), Some(150), None, None, None, None),
     Payload(None, Some("No time to live"), None, Some(0), None, None, None)}
OutOfBoundsRaws ==
    {Raw(Some("state"), None, None, p, Token) : p \in OutOfBoundsPayloads}
        \cup {AnyCommand("remember", None, p) : p \in OutOfBoundsPayloads}
        \cup {AnyCommand("reframe", Some(0), p) : p \in OutOfBoundsPayloads}

(* C25 as stated: process_input returns a response for every raw input,   *)
(* out-of-bounds state, remember and reframe payloads included, and a      *)
(* failure response carries a message.                                     *)
C25_NeverRaises ==
    \A raw \in OutOfBoundsRaws \cup ShapeErrorRaws, order \in Orders :
        \A r \in {process_input(World, raw, order)} :
            /\ ~r.response.raised
            /\ ~r.response.success => r.response.message # ""

----------------------------------------------------------------------------
(* C26: a fact input is stored without a decay sweep, an accretion check   *)
(* or a validation (it succeeds in every state, and expired tokens stay),  *)
(* and a fact input and an audit command, with a target or without, leave  *)
(* the stored tokens and the audit log as they were.                       *)
C26_FactAndAuditLeaveTokens ==
    \A raw \in FactRaws \cup AuditRaws
                  \cup {Raw(Some("command"), Some("audit"), Some(9), EmptyPayload, Token)},
       order \in Orders :
        \A r \in {process_input(World, raw, order)} :
            /\ r.response.success
            /\ r.w.glyphs = glyphs
            /\ r.w.audit = audit
            /\ r.w.event_counter = event_counter
            /\ r.w.glyph_counter = glyph_counter
            /\ raw \notin FactRaws => r.w.facts = facts
            /\ raw \in FactRaws =>
                  /\ Len(r.w.facts) = Len(facts) + 1
                  /\ SubSeq(r.w.facts, 1, Len(facts)) = facts

\* an expired token is stored and the log is not empty: a state request
\* here sweeps and logs, a fact input and an audit command do neither
C26_Witness ==
    /\ StoredExpired # {}
    /\ audit # <<>>
    /\ \E order \in Orders :
          /\ process_input(World, Raw(Some("state"), None, None, ShortLived, Token),
                           order).w.glyphs # glyphs
          /\ \A raw \in FactRaws \cup AuditRaws :
                /\ process_input(World, raw, order).response.success
                /\ process_input(World, raw, order).w.glyphs = glyphs

----------------------------------------------------------------------------
(* C27 as stated: the id the engine assigns to a newly created token is    *)
(* the id of no token in the store at that moment, genesis tokens          *)
(* included, so that creating a token overwrites none.                     *)
C27_FreshIdentifier ==
    \A raw \in CreateRaws, order \in Orders :
        \A r \in {process_input(World, raw, order)} :
            r.response.success =>
                /\ r.response.glyph_id[1] \notin DOMAIN glyphs
                /\ \A id \in DOMAIN glyphs \ StoredExpired :
                      r.w.glyphs[id] = glyphs[id]

----------------------------------------------------------------------------
(* Construction of a GlyphStore over a durable root: the root is what      *)
(* earlier stores left there, tokens saved and deleted (the genesis ones   *)
(* too) and scrolls saved.                                                 *)

BootIds == {0, 1, 2}
BootScrolls ==
    {[GENESIS_SCROLL EXCEPT !.allowed_mutations = {"decay"}], STANDARD_SCROLL}

BootSaveGlyph ==
    /\ transaction = None
    /\ \E g \in StoreTokens : StoreInstall(save_glyph(World, g), begin_glyphs)
BootDeleteGlyph ==
    /\ transaction = None
    /\ \E id \in BootIds :
          /\ delete_result(World, id)
          /\ StoreInstall(delete_glyph(World, id), begin_glyphs)
BootSaveScroll ==
    /\ transaction = None
    /\ \E scroll \in BootScrolls :
          StoreInstall(save_scroll(World, scroll), begin_glyphs)
\* GlyphStore(vault_path) over the root as it is
Construct ==
    /\ transaction = None
    /\ StoreInstall(store_init(World), begin_glyphs)

BootNext ==
    \/ BootSaveGlyph
    \/ BootDeleteGlyph
    \/ BootSaveScroll
    \/ Construct

BootSpec == StoreInit /\ [][BootNext]_vars

(* C28: a store constructed over a root with no token files holds exactly  *)
(* the genesis tokens G-000 and G-001 and the genesis scroll S-000 when    *)
(* the constructor returns; over a root with at least one token file it    *)
(* leaves every token file and every scroll file as it found them.         *)
C28_GenesisBootstrap ==
    \A w \in {store_init(World)} :
        IF DOMAIN glyphs = {}
        THEN /\ DOMAIN w.glyphs = {0, 1}
             /\ w.glyphs = GENESIS_GLYPHS
             /\ "S-000" \in DOMAIN w.scroll_files
             /\ w.scroll_files["S-000"] = GENESIS_SCROLL
             /\ \A id \in DOMAIN scroll_files \ {"S-000"} :
                   w.scroll_files[id] = scroll_files[id]
             /\ list_glyphs(w) # {}
        ELSE /\ w.glyphs = glyphs
             /\ w.scroll_files = scroll_files

\* every token file was deleted and S-000 was overwritten by a caller: the
\* store constructed next seeds the genesis tokens and the genesis scroll
C28_Witness ==
    /\ DOMAIN glyphs = {}
    /\ scroll_files["S-000"] # GENESIS_SCROLL
    /\ store_init(World).glyphs = GENESIS_GLYPHS
    /\ store_init(World).scroll_files["S-000"] = GENESIS_SCROLL

----------------------------------------------------------------------------
(* State-creating requests against a registry whose standard validator     *)
(* V-01 was dropped, had a check renamed, or was resealed after that.      *)

GovInit == InitWith({3}, {FALSE})

GovDrop ==
    /\ "V-01" \in DOMAIN validators
    /\ TamperDistance(validators) < MaxTamper
    /\ validators' = [v \in (DOMAIN validators) \ {"V-01"} |-> validators[v]]
    /\ UNCHANGED <<now, config, glyphs, glyph_cache, backups, transaction,
                   tx_counter, audit, event_counter, glyph_counter, session_id,
                   scrolls, facts, scroll_files, begin_glyphs>>
GovRename ==
    /\ "V-01" \in DOMAIN validators
    /\ validators["V-01"] = CoreValidators["V-01"]
    /\ \E i \in {2, 5} :
          SetChecks("V-01", [validators["V-01"].checks EXCEPT ![i].name = "renamed"])
GovReseal ==
    /\ "V-01" \in DOMAIN validators
    /\ ~verify_integrity(validators["V-01"])
    /\ validators' = [validators EXCEPT
                         !["V-01"].checksum = Some(compute_checksum(validators["V-01"]))]
    /\ UNCHANGED <<now, config, glyphs, glyph_cache, backups, transaction,
                   tx_counter, audit, event_counter, glyph_counter, session_id,
                   scrolls, facts, scroll_files, begin_glyphs>>
GovCreate ==
    /\ Len(audit) < MaxEvents
    /\ \E raw \in CreateRaws : ProcessInput(raw, MaxEvents)

GovNext ==
    \/ GovDrop
    \/ GovRename
    \/ GovReseal
    \/ GovCreate
    \/ LifeTick

GovernanceSpec == GovInit /\ [][GovNext]_vars

\* the token _handle_state builds for a creation request, and the context
\* it validates it in
Candidate(msg) ==
    GlyphToken(glyph_counter + 1, get(msg.payload, "class", "anchor"),
               get(msg.payload, "intensity", DEFAULT_INTENSITY), msg.source,
               get(msg.payload, "ttl", IF msg.command_verb = Some("remember")
                                       THEN REMEMBER_TTL
                                       ELSE config.default_ttl_seconds),
               get(msg.payload, "explanation", "User-declared state"))
CandidateContext(msg) ==
    [glyph |-> Some(Candidate(msg)), mutation |-> None, source |-> msg.source,
     authenticated |-> is_authenticated(msg), history |-> <<>>]

(* C29: when the validation of a creation request that passed the          *)
(* accretion check yields a failing result (V-01 not registered, V-01      *)
(* failing its integrity check, or a failing check), the token is not      *)
(* persisted, the log grows by the sweep's events and exactly one          *)
(* 'validation_failed' event for the candidate id carrying the results,    *)
(* and the failure response carries the whole ordered result list.         *)
C29_GovernanceErrorsLogged ==
    \A raw \in CreateRaws, order \in Orders :
        \A r \in {process_input(World, raw, order)},
           swept \in {run_decay_cycle(World, order)},
           results \in {validate_transition(validators, "V-01",
                                            CandidateContext(parse(raw)))} :
            (/\ check_accretion(swept)
             /\ \E i \in 1..Len(results) : ~results[i].passed)
            => /\ ~r.response.success
               /\ ~r.response.raised
               /\ r.response.validation_results = Some(results)
               /\ r.w.glyphs = swept.glyphs
               /\ Len(r.w.audit) = Len(swept.audit) + 1
               /\ SubSeq(r.w.audit, 1, Len(swept.audit)) = swept.audit
               /\ r.w.audit[Len(r.w.audit)].event_type = "validation_failed"
               /\ r.w.audit[Len(r.w.audit)].glyph_id = glyph_counter + 1
               /\ r.w.audit[Len(r.w.audit)].validation_results = Some(results)

\* the log holds one 'validation_failed' event of each kind: V-01 not
\* found, V-01 failing its integrity check, and a failing check of V-01;
\* none of the three candidates was persisted
C29_Witness ==
    /\ Len(audit) = 3
    /\ \A i \in 1..3 : audit[i].event_type = "validation_failed"
    /\ \E i \in 1..3 : audit[i].validation_results[1][1].check_name = "validator_exists"
    /\ \E i \in 1..3 : audit[i].validation_results[1][1].check_name = "validator_integrity"
    /\ \E i \in 1..3 :
          /\ Len(audit[i].validation_results[1]) > 1
          /\ ~audit[i].validation_results[1][Len(audit[i].validation_results[1])].passed
    /\ glyphs = GENESIS_GLYPHS

----------------------------------------------------------------------------
(* The standard scroll S-001 of an engine with its allowed and forbidden   *)
(* sets edited (they are mutable sets of a mutable object), and reframe    *)
(* commands, the requests that consult it.                                 *)

PolicyInit == InitWith({3}, {FALSE})
PolicyKinds == {"transform", "amplify", "refresh"}

SetPolicy(scroll) ==
    /\ scrolls' = [scrolls EXCEPT !["S-001"] = scroll]
    /\ UNCHANGED <<now, config, glyphs, glyph_cache, backups, transaction,
                   tx_counter, audit, event_counter, glyph_counter, session_id,
                   validators, facts, scroll_files, begin_glyphs>>

Allow ==
    /\ "S-001" \in DOMAIN scrolls
    /\ \E kind \in PolicyKinds \ scrolls["S-001"].allowed_mutations :
          SetPolicy([scrolls["S-001"] EXCEPT !.allowed_mutations = @ \cup {kind}])
Disallow ==
    /\ "S-001" \in DOMAIN scrolls
    /\ \E kind \in PolicyKinds \cap scrolls["S-001"].allowed_mutations :
          SetPolicy([scrolls["S-001"] EXCEPT !.allowed_mutations = @ \ {kind}])
Forbid ==
    /\ "S-001" \in DOMAIN scrolls
    /\ \E kind \in PolicyKinds \ scrolls["S-001"].forbidden_mutations :
          SetPolicy([scrolls["S-001"] EXCEPT !.forbidden_mutations = @ \cup {kind}])
Unforbid ==
    /\ "S-001" \in DOMAIN scrolls
    /\ \E kind \in PolicyKinds \cap scrolls["S-001"].forbidden_mutations :
          SetPolicy([scrolls["S-001"] EXCEPT !.forbidden_mutations = @ \ {kind}])
PolicyReframe ==
    /\ Len(audit) < MaxPayloadEvents
    /\ \E raw \in ReframeRaws : ProcessInput(raw, MaxPayloadEvents)

PolicyNext ==
    \/ Allow
    \/ Disallow
    \/ Forbid
    \/ Unforbid
    \/ PolicyReframe

PolicySpec == PolicyInit /\ [][PolicyNext]_vars

(* C30: for every scroll and every mutation kind, is_mutation_allowed is   *)
(* false when the kind is forbidden, whether it is allowed or not, and     *)
(* otherwise true exactly when the kind is allowed; a reframe of a stored  *)
(* token succeeds exactly when S-001 allows 'transform' and does not       *)
(* forbid it.                                                              *)
C30_ForbiddenOverridesAllowed ==
    /\ \A id \in DOMAIN scrolls, kind \in MutationType :
          /\ kind \in scrolls[id].forbidden_mutations
                => ~is_mutation_allowed(scrolls[id], kind)
          /\ kind \notin scrolls[id].forbidden_mutations
                => (is_mutation_allowed(scrolls[id], kind)
                       <=> kind \in scrolls[id].allowed_mutations)
    /\ \A raw \in ReframeRaws, order \in Orders :
          raw.target[1] \in DOMAIN glyphs =>
              (process_input(World, raw, order).response.success
                  <=> /\ "transform" \in scrolls["S-001"].allowed_mutations
                      /\ "transform" \notin scrolls["S-001"].forbidden_mutations)

\* S-001 both allows and forbids 'transform' and 'amplify'; a reframe was
\* carried out earlier and a reframe of a stored token is now refused
C30_Witness ==
    /\ {"transform", "amplify"} \subseteq scrolls["S-001"].allowed_mutations
    /\ {"transform", "amplify"} \subseteq scrolls["S-001"].forbidden_mutations
    /\ ~is_mutation_allowed(scrolls["S-001"], "transform")
    /\ audit # <<>>
    /\ \E raw \in ReframeRaws, order \in Orders :
          /\ raw.target[1] \in DOMAIN glyphs
          /\ ~process_input(World, raw, order).response.success

----------------------------------------------------------------------------
(* The standard scroll S-001 with its allowed and forbidden sets and its   *)
(* list of explicit transitions edited (a mutable list of a mutable        *)
(* object): the scrolls can_transition is asked about.                     *)

TransitionIds == {0, 1}
TransitionKinds == {"transform", "refresh"}

ScrollTransition(from_glyph_id, to_glyph_id, mutation_type) ==
    [from_glyph_id |-> from_glyph_id, to_glyph_id |-> to_glyph_id,
     mutation_type |-> mutation_type]

AddTransition ==
    /\ "S-001" \in DOMAIN scrolls
    /\ Len(scrolls["S-001"].transitions) < MaxTransitions
    /\ \E from \in TransitionIds, to \in TransitionIds, kind \in TransitionKinds :
          SetPolicy([scrolls["S-001"] EXCEPT
                        !.transitions = Append(@, ScrollTransition(from, to, kind))])
RemoveTransition ==
    /\ "S-001" \in DOMAIN scrolls
    /\ scrolls["S-001"].transitions # <<>>
    /\ SetPolicy([scrolls["S-001"] EXCEPT
                     !.transitions = SubSeq(@, 1, Len(@) - 1)])

TransitionNext ==
    \/ Allow
    \/ Disallow
    \/ Forbid
    \/ Unforbid
    \/ AddTransition
    \/ RemoveTransition

TransitionSpec == PolicyInit /\ [][TransitionNext]_vars

ExactEntry(scroll, from_id, to_id, mutation) ==
    \E i \in 1..Len(scroll.transitions) :
        scroll.transitions[i] = ScrollTransition(from_id, to_id, mutation)

(* C31, as stated: a scroll with no explicit transitions answers true for  *)
(* every token pair and every mutation kind outside its forbidden set; a   *)
(* scroll with transitions answers true only for an allowed kind with an   *)
(* exact (from, to, kind) entry.                                           *)
C31_PermissiveDefault ==
    \A id \in DOMAIN scrolls, from \in TransitionIds, to \in TransitionIds,
       kind \in MutationType :
        /\ (/\ scrolls[id].transitions = <<>>
            /\ kind \notin scrolls[id].forbidden_mutations)
              => can_transition(scrolls[id], from, to, kind)
        /\ (/\ scrolls[id].transitions # <<>>
            /\ can_transition(scrolls[id], from, to, kind))
              => /\ is_mutation_allowed(scrolls[id], kind)
                 /\ ExactEntry(scrolls[id], from, to, kind)

(* C31, amended: a scroll with no explicit transitions answers true for    *)
(* every token pair exactly for the kinds that are allowed and not         *)
(* forbidden (a kind in neither set is refused); a scroll with transitions *)
(* answers true exactly for such a kind with an exact (from, to, kind)     *)
(* entry.                                                                  *)
C31_OpenWithinMutationRules ==
    \A id \in DOMAIN scrolls, from \in TransitionIds, to \in TransitionIds,
       kind \in MutationType :
        /\ scrolls[id].transitions = <<>>
              => (can_transition(scrolls[id], from, to, kind)
                     <=> /\ kind \in scrolls[id].allowed_mutations
                         /\ kind \notin scrolls[id].forbidden_mutations)
        /\ scrolls[id].transitions # <<>>
              => (can_transition(scrolls[id], from, to, kind)
                     <=> /\ kind \in scrolls[id].allowed_mutations
                         /\ kind \notin scrolls[id].forbidden_mutations
                         /\ ExactEntry(scrolls[id], from, to, kind))

\* S-001 lists two transitions, allows 'refresh' and neither allows nor
\* forbids 'transform': the listed refresh is permitted, an unlisted pair
\* and the listed transform are refused; S-000, which lists none, permits
\* refresh between every pair
C31_Witness ==
    /\ Len(scrolls["S-001"].transitions) = 2
    /\ "refresh" \in scrolls["S-001"].allowed_mutations
    /\ "refresh" \notin scrolls["S-001"].forbidden_mutations
    /\ "transform" \notin scrolls["S-001"].allowed_mutations
    /\ "transform" \notin scrolls["S-001"].forbidden_mutations
    /\ ExactEntry(scrolls["S-001"], 0, 1, "refresh")
    /\ ExactEntry(scrolls["S-001"], 0, 1, "transform")
    /\ can_transition(scrolls["S-001"], 0, 1, "refresh")
    /\ ~can_transition(scrolls["S-001"], 1, 0, "refresh")
    /\ ~can_transition(scrolls["S-001"], 0, 1, "transform")
    /\ scrolls["S-000"].transitions = <<>>
    /\ \A from \in TransitionIds, to \in TransitionIds :
          can_transition(scrolls["S-000"], from, to, "refresh")

----------------------------------------------------------------------------
(* C32: a reframe of a stored token that is refused because S-001 does not *)
(* permit 'transform' appends no audit event, and a load after it returns  *)
(* the token's class, explanation and intensity as a load before it did.   *)
C32_RefusedReframeLeavesToken ==
    \A raw \in ReframeRaws, order \in Orders :
        \A r \in {process_input(World, raw, order)} :
            (/\ raw.target[1] \in DOMAIN glyphs
             /\ ~is_mutation_allowed(get_scroll("S-001"), "transform")
             /\ ~r.response.success)
                => /\ r.w.audit = audit
                   /\ r.w.glyphs = glyphs
                   /\ \A before \in {load_result(World, raw.target[1])[1]},
                         after \in {load_result(r.w, raw.target[1])[1]} :
                          /\ after.glyph_class = before.glyph_class
                          /\ after.explanation = before.explanation
                          /\ after.intensity = before.intensity

----------------------------------------------------------------------------
(* C33: commit_transaction on an open transaction returns true, keeps the  *)
(* token files and the cache as the transaction left them, removes the     *)
(* transaction's backup and closes the transaction; on the store it leaves *)
(* rollback_transaction and commit_transaction return false and change     *)
(* nothing, and begin_transaction does not raise and opens a transaction.  *)
C33_CommitKeepsAndCloses ==
    transaction # None =>
        \A w \in {commit_transaction(World)} :
            /\ commit_result(World)
            /\ w.glyphs = glyphs
            /\ w.glyph_cache = glyph_cache
            /\ transaction[1].transaction_id \notin DOMAIN w.backups
            /\ w.transaction = None
            /\ ~rollback_result(w)
            /\ rollback_transaction(w) = w
            /\ ~commit_result(w)
            /\ commit_transaction(w) = w
            /\ ~begin_transaction_call(w).raised
            /\ begin_transaction_call(w).w.transaction # None

\* a transaction that has saved one token and deleted another, so that the
\* token set differs from the one at begin, is about to be committed
C33_Witness ==
    /\ transaction # None
    /\ Len(transaction[1].operations) = 2
    /\ {transaction[1].operations[i].type : i \in 1..2}
          = {"save_glyph", "delete_glyph"}
    /\ DOMAIN glyphs # DOMAIN begin_glyphs
    /\ transaction[1].transaction_id \in DOMAIN backups
    /\ commit_transaction(World).glyphs = glyphs
    /\ commit_transaction(World).backups = EmptyMap

----------------------------------------------------------------------------
(* _handle_state statement by statement: the steps the handler completes,  *)
(* in the order of the code, each with the world it leaves behind.  The    *)
(* handler returns or raises after the last step of the sequence.          *)

StepOrder == <<"decay", "accretion", "generate_id", "build", "validate",
               "persist", "audit">>

Step(name, w) == [step |-> name, w |-> w]

\* the message _handle_state receives: _cmd_remember sets the payload's ttl
state_message(raw) ==
    IF raw.verb = Some("remember")
    THEN [parse(raw) EXCEPT !.payload.ttl = Some(get(raw.payload, "ttl", REMEMBER_TTL))]
    ELSE parse(raw)

\* mutant of handle_state_steps: the 'created' event is written before the
\* token is saved
handle_state_steps_audit_first(w, msg, order) ==
    LET w1 == run_decay_cycle(w, order)
        w2 == [w1 EXCEPT !.glyph_counter = @ + 1]
        glyph == GlyphToken(w2.glyph_counter, get(msg.payload, "class", "anchor"),
                            get(msg.payload, "intensity", DEFAULT_INTENSITY),
                            msg.source,
                            get(msg.payload, "ttl", config.default_ttl_seconds),
                            get(msg.payload, "explanation", "User-declared state"))
        results == validate_transition(validators, "V-01",
                       [glyph |-> Some(glyph), mutation |-> None,
                        source |-> msg.source,
                        authenticated |-> is_authenticated(msg),
                        history |-> <<>>])
        w3 == create_event(w2, "created", glyph.glyph_id, msg.source, None,
                           Some(glyph), None)
    IN  IF ~check_accretion(w1)
        THEN <<Step("decay", w1), Step("accretion", w1)>>
        ELSE IF SelectSeq(results, LAMBDA r : ~r.passed) # <<>>
        THEN <<Step("decay", w1), Step("accretion", w1), Step("generate_id", w2),
               Step("build", w2), Step("validate", w2),
               Step("audit", create_event(w2, "validation_failed", glyph.glyph_id,
                                          msg.source, None, None, Some(results)))>>
        ELSE <<Step("decay", w1), Step("accretion", w1), Step("generate_id", w2),
               Step("build", w2), Step("validate", w2),
               Step("audit", w3), Step("persist", save_glyph(w3, glyph))>>

handle_state_steps(w, msg, order) ==
    LET w1 == run_decay_cycle(w, order)
        s1 == <<Step("decay", w1), Step("accretion", w1)>>
    IN  IF ~check_accretion(w1)
        THEN s1
        ELSE
        LET glyph_id == w1.glyph_counter + 1
            w2 == [w1 EXCEPT !.glyph_counter = glyph_id]
            s2 == Append(s1, Step("generate_id", w2))
            glyph_class == get(msg.payload, "class", "anchor")
            intensity == get(msg.payload, "intensity", DEFAULT_INTENSITY)
            ttl == get(msg.payload, "ttl", config.default_ttl_seconds)
            explanation == get(msg.payload, "explanation", "User-declared state")
        IN  IF \/ glyph_class \notin GlyphClass
               \/ ~FieldsValid(glyph_class, intensity, ttl, explanation)
            THEN s2
            ELSE
            LET glyph == GlyphToken(glyph_id, glyph_class, intensity,
                                    msg.source, ttl, explanation)
                s3 == Append(s2, Step("build", w2))
                results == validate_transition(validators, "V-01",
                               [glyph |-> Some(glyph), mutation |-> None,
                                source |-> msg.source,
                                authenticated |-> is_authenticated(msg),
                                history |-> <<>>])
                s4 == Append(s3, Step("validate", w2))
                failed == SelectSeq(results, LAMBDA r : ~r.passed)
            IN  IF failed # <<>>
                THEN Append(s4, Step("audit",
                         create_event(w2, "validation_failed", glyph_id,
                                      msg.source, None, None, Some(results))))
                ELSE
                LET w3 == save_glyph(w2, glyph)
                    w4 == create_event(w3, "created", glyph_id, msg.source,
                                       None, Some(glyph), None)
                IN  s4 \o <<Step("persist", w3), Step("audit", w4)>>

\* creation requests against an engine whose validator V-01 is registered
\* or dropped, with the clock advancing between the requests
StepNext ==
    \/ GovCreate
    \/ GovDrop
    \/ LifeTick

StepSpec == GovInit /\ [][StepNext]_vars

\* the position of a step name in the order of the code
Rank(name) == CHOOSE i \in 1..Len(StepOrder) : StepOrder[i] = name

\* the world holds the token, as built, under its id
Holds(w, glyph) ==
    /\ glyph.glyph_id \in DOMAIN w.glyphs
    /\ w.glyphs[glyph.glyph_id] = glyph

(* C34: the steps a state or remember request that passes the              *)
(* authentication gate completes start with the                            *)
(* decay sweep and follow the order decay, accretion, id, build, validate, *)
(* persist, audit, ending in the world the request leaves; the persist     *)
(* step is taken only after a validation whose results all passed, the     *)
(* candidate is in the store after no earlier step, no event of the        *)
(* request is written before its audit step, and the log of a step holds a *)
(* 'created' event of the request only when that step's store holds the    *)
(* token the event names.                                                  *)
C34_StepOrder ==
    \A raw \in CreateRaws, order \in Orders :
        \A steps \in {handle_state_steps(World, state_message(raw), order)},
           glyph \in {Candidate(parse(raw))} :
          (config.require_auth => is_authenticated(parse(raw))) =>
            /\ steps[1].step = "decay"
            /\ steps[1].w = run_decay_cycle(World, order)
            /\ steps[Len(steps)].w = process_input(World, raw, order).w
            /\ \A i \in 1..(Len(steps) - 1) :
                  Rank(steps[i].step) < Rank(steps[i + 1].step)
            /\ \A i \in 1..Len(steps) :
                  /\ steps[i].step = "persist"
                        => /\ steps[i - 1].step = "validate"
                           /\ AllPassed(validate_transition(validators, "V-01",
                                            CandidateContext(parse(raw))))
                           /\ Holds(steps[i].w, glyph)
                  /\ Rank(steps[i].step) < Rank("persist")
                        => ~Holds(steps[i].w, glyph)
                  /\ Rank(steps[i].step) < Rank("audit")
                        => steps[i].w.audit = steps[1].w.audit
                  /\ \A k \in (Len(steps[1].w.audit) + 1)..Len(steps[i].w.audit) :
                        steps[i].w.audit[k].event_type = "created"
                            => /\ steps[i].w.audit[k].glyph_id = glyph.glyph_id
                               /\ steps[i].w.audit[k].after_state = Some(glyph)
                               /\ Holds(steps[i].w, glyph)

\* a token created earlier has expired: one request now sweeps it and
\* completes all seven steps, another sweeps it and ends, its validation
\* failed, with the audit step
C34_Witness ==
    /\ audit # <<>>
    /\ \E raw \in CreateRaws, order \in Orders :
          /\ Len(order) >= 1
          /\ Len(handle_state_steps(World, state_message(raw), order)) = 7
          /\ handle_state_steps(World, state_message(raw), order)[6].step = "persist"
          /\ process_input(World, raw, order).response.success
    /\ \E raw \in CreateRaws, order \in Orders :
          /\ Len(order) >= 1
          /\ Len(handle_state_steps(World, state_message(raw), order)) = 6
          /\ handle_state_steps(World, state_message(raw), order)[6].step = "audit"
          /\ ~process_input(World, raw, order).response.success

----------------------------------------------------------------------------
\* the ids load_glyph and delete_glyph are asked about: the genesis anchor,
\* the ids the store operations write, and one never written
LoadIds == {0} \cup StoreIds \cup {9}

(* C35: in a single store instance, after any sequence of save, load,      *)
(* delete, begin, commit and rollback, the read cache holds only ids that  *)
(* have a token file, with the file's content; load_glyph returns the      *)
(* file's content for an id that has a file and absent otherwise, the      *)
(* saved token right after a save, absent right after a delete, and after  *)
(* a rollback the content of the begin or absent for an id created inside  *)
(* the transaction; delete_glyph of an id without a file returns false and *)
(* changes nothing.                                                        *)
C35_CacheCoherence ==
    /\ DOMAIN glyph_cache \subseteq DOMAIN glyphs
    /\ \A id \in DOMAIN glyph_cache : glyph_cache[id] = glyphs[id]
    /\ \A id \in LoadIds :
          /\ load_result(World, id)
                = IF id \in DOMAIN glyphs THEN Some(glyphs[id]) ELSE None
          /\ ~load_raises(World, id)
          /\ load_world(World, id).glyphs = glyphs
          /\ id \notin DOMAIN glyphs
                => /\ ~delete_result(World, id)
                   /\ delete_glyph(World, id) = World
          /\ id \in DOMAIN glyphs
                => /\ delete_result(World, id)
                   /\ load_result(delete_glyph(World, id), id) = None
          /\ transaction # None
                => load_result(rollback_transaction(World), id)
                      = IF id \in DOMAIN begin_glyphs
                        THEN Some(begin_glyphs[id]) ELSE None
    /\ \A g \in StoreTokens :
          load_result(save_glyph(World, g), g.glyph_id) = Some(g)

\* the second transaction is open, the first was ended by a rollback or a
\* commit; a token saved inside the open one is cached, a token that was
\* there at its begin has been deleted, and the cache no longer holds every
\* file
C35_Witness ==
    /\ transaction # None
    /\ tx_counter = 2
    /\ \E id \in StoreIds : id \in DOMAIN glyph_cache /\ id \notin DOMAIN begin_glyphs
    /\ \E id \in DOMAIN begin_glyphs : id \notin DOMAIN glyphs
    /\ DOMAIN glyph_cache # DOMAIN glyphs

----------------------------------------------------------------------------
(* One store instance whose transactions also save scrolls and facts.      *)

TxSaveScroll ==
    /\ transaction # None
    /\ \E scroll \in BootScrolls :
          StoreInstall(save_scroll(World, scroll), begin_glyphs)
TxSaveFact ==
    /\ transaction # None
    /\ Len(facts) < MaxFacts
    /\ \E p \in FactPayloads :
          StoreInstall(save_fact(World, get(p, "content", ""),
                                 [source |-> "user", category |-> "general"]),
                       begin_glyphs)

FrameNext ==
    \/ Begin
    \/ Commit
    \/ Rollback
    \/ SaveGlyph
    \/ DeleteGlyph
    \/ TxSaveScroll
    \/ TxSaveFact

FrameSpec == StoreInit /\ [][FrameNext]_vars

(* C36: rollback_transaction leaves every scroll file and every fact as it *)
(* is, those saved inside the open transaction and those that were there   *)
(* at its begin; only the token files return to the begin.                 *)
C36_RollbackSparesScrollsAndFacts ==
    transaction # None =>
        \A w \in {rollback_transaction(World)} :
            /\ rollback_result(World)
            /\ w.scroll_files = scroll_files
            /\ w.facts = facts
            /\ w.glyphs = begin_glyphs

\* the first transaction of the store is open; inside it a token was saved,
\* the genesis scroll was overwritten, S-001 was saved and a fact was saved
C36_Witness ==
    /\ transaction # None
    /\ tx_counter = 1
    /\ glyphs # begin_glyphs
    /\ scroll_files["S-000"] # GENESIS_SCROLL
    /\ "S-001" \in DOMAIN scroll_files
    /\ facts # <<>>
    /\ rollback_transaction(World).glyphs # glyphs
    /\ rollback_transaction(World).facts # <<>>

----------------------------------------------------------------------------
(* C37: in every store instance, whatever an earlier instance left on the  *)
(* root, the backup that begin_transaction takes holds exactly the token   *)
(* files present at the begin, and a rollback right after the begin leaves *)
(* exactly those token files.                                              *)
C37_BackupIsBeginSnapshot ==
    transaction = None =>
        \A w \in {begin_transaction_call(World).w} :
            /\ ~begin_transaction_call(World).raised
            /\ w.backups[w.transaction[1].transaction_id] = glyphs
            /\ rollback_transaction(w).glyphs = glyphs

----------------------------------------------------------------------------
\* creation requests without a token from a source other than "system"
AnonymousCreateRaws == {Anonymous(raw, source) : raw \in CreateRaws, source \in Sources}

\* the last event of the log is a 'validation_failed' event for the id
LastIsValidationFailed(log, id) ==
    /\ log # <<>>
    /\ log[Len(log)].event_type = "validation_failed"
    /\ log[Len(log)].glyph_id = id
    /\ log[Len(log)].validation_results # None
    /\ ~AllPassed(log[Len(log)].validation_results[1])

(* C38, as stated: with require_auth off, a state or remember request      *)
(* without a token from a source other than 'system' fails, persists no    *)
(* token and appends a 'validation_failed' event.                          *)
C38_AnonymousFailsValidation ==
    ~config.require_auth =>
        \A raw \in AnonymousCreateRaws, order \in Orders :
            \A r \in {process_input(World, raw, order)},
               swept \in {run_decay_cycle(World, order)} :
                /\ ~r.response.success
                /\ r.w.glyphs = swept.glyphs
                /\ Len(r.w.audit) = Len(swept.audit) + 1
                /\ LastIsValidationFailed(r.w.audit, swept.glyph_counter + 1)

\* state and remember requests without a token whose payload the token
\* model rejects (see C25)
AnonymousOutOfBoundsRaws ==
    {Anonymous(Raw(Some(kv[1]), kv[2], None, p, Token), source) :
        kv \in {<<"state", None>>, <<"command", Some("remember")>>},
        p \in OutOfBoundsPayloads, source \in Sources}

(* C38, amended: with require_auth off, a state or remember request        *)
(* without a token from a source other than 'system' never succeeds and    *)
(* persists no token: the token files are those the request's decay sweep  *)
(* left.  When the swept store is below the ceiling and the token model    *)
(* accepts the payload, the request is validated, the validation fails and *)
(* one 'validation_failed' event for the candidate id follows the sweep's  *)
(* events; at the ceiling the request is rejected before validation, and   *)
(* with a payload the token model rejects it raises before validation: in  *)
(* both cases only the sweep's events are appended.                        *)
C38_AnonymousNeverPersists ==
    ~config.require_auth =>
        \A raw \in AnonymousCreateRaws \cup AnonymousOutOfBoundsRaws,
           order \in Orders :
            \A r \in {process_input(World, raw, order)},
               swept \in {run_decay_cycle(World, order)} :
                /\ ~r.response.success
                /\ r.w.glyphs = swept.glyphs
                /\ SubSeq(r.w.audit, 1, Len(swept.audit)) = swept.audit
                /\ r.response.raised
                      <=> (check_accretion(swept) /\ raw.payload \in OutOfBoundsPayloads)
                /\ IF check_accretion(swept) /\ ~r.response.raised
                   THEN /\ Len(r.w.audit) = Len(swept.audit) + 1
                        /\ LastIsValidationFailed(r.w.audit, swept.glyph_counter + 1)
                        /\ r.response.validation_results # None
                   ELSE /\ r.w.audit = swept.audit
                        /\ r.response.validation_results = None

\* a request without a token was refused by the validator earlier (its
\* 'validation_failed' event is in the log) and a token created with a
\* token has since filled the store to the ceiling, so that another request
\* without a token is now rejected before validation
C38_Witness ==
    /\ ~config.require_auth
    /\ \E i \in 1..Len(audit) :
          /\ audit[i].event_type = "validation_failed"
          /\ audit[i].source = "user"
          /\ \E j \in 1..Len(audit[i].validation_results[1]) :
                audit[i].validation_results[1][j].check_name = "authentication_required"
    /\ \E i \in 1..Len(audit) : audit[i].event_type = "created"
    /\ \E raw \in AnonymousCreateRaws, order \in Orders :
          /\ ~check_accretion(run_decay_cycle(World, order))
          /\ ~process_input(World, raw, order).response.success

----------------------------------------------------------------------------
(* An engine that requires authentication, driven by inputs whose source   *)
(* tag is "system" and that carry no token, with the clock advancing       *)
(* between them.                                                           *)

SystemInit == InitWith({3}, {TRUE})

\* the request as a token-less input of the source "system"
AsSystem(raw, auth_token) == [raw EXCEPT !.source = "system", !.auth_token = auth_token]

\* one request of each kind that writes tokens
SystemRaws ==
    {Raw(Some("state"), None, None, p, None) : p \in StatePayloads}
        \cup {Raw(Some("command"), Some("remember"), None, p, None) : p \in RememberPayloads}
        \cup {Raw(Some("command"), Some(verb), Some(1), p, None) :
                 verb \in {"forget"}, p \in {EmptyPayload}}
        \cup {Raw(Some("command"), Some("reframe"), Some(1), p, None) : p \in ReframePayloads}
        \cup {Raw(Some("command"), Some("refresh"), Some(1), p, None) : p \in RefreshPayloads}
        \cup {Raw(Some("command"), Some("attenuate"), Some(1), p, None) : p \in AttenuatePayloads}

SystemInput ==
    /\ Len(audit) < MaxPayloadEvents
    /\ \E raw \in SystemRaws : ProcessInput(AsSystem(raw, None), MaxPayloadEvents)

SystemNext ==
    \/ SystemInput
    \/ LifeTick

SystemSpec == SystemInit /\ [][SystemNext]_vars

(* C39: with require_auth on, an input of the source 'system' without a    *)
(* token counts as authenticated, is not stopped at the authentication     *)
(* gate, never fails the validator's authentication_required check, and    *)
(* leaves the world and the response that the same input with a token      *)
(* leaves; it succeeds exactly when the input of a user with a token does. *)
C39_SystemIsAuthenticated ==
    config.require_auth =>
        \A raw \in SystemRaws, order \in Orders :
            \A r \in {process_input(World, AsSystem(raw, None), order)} :
                /\ is_authenticated(parse(AsSystem(raw, None)))
                /\ r.response.message # "Authentication required"
                /\ r = process_input(World, AsSystem(raw, Token), order)
                /\ r.response.success
                      = process_input(World, [raw EXCEPT !.auth_token = Token],
                                      order).response.success
                /\ r.response.validation_results # None
                      => \A i \in 1..Len(r.response.validation_results[1]) :
                            r.response.validation_results[1][i].check_name
                                # "authentication_required"

\* token-less 'system' inputs have created G-001 and then changed it (their
\* two events are in the log), and a token-less 'system' forget of G-001
\* would now succeed
C39_Witness ==
    /\ config.require_auth
    /\ Len(audit) = 2
    /\ \A i \in 1..2 : audit[i].source = "system" /\ audit[i].glyph_id = 1
    /\ audit[1].event_type = "created"
    /\ audit[2].event_type \in {"mutated", "refreshed"}
    /\ \E raw \in SystemRaws, order \in Orders :
          /\ raw.verb = Some("forget")
          /\ process_input(World, AsSystem(raw, None), order).response.success

----------------------------------------------------------------------------
\* the commands that act on one stored token, with the payloads explored;
\* the refresh payloads include a negative number of seconds
TargetCommands(id) ==
    {Raw(Some("command"), Some("forget"), Some(id), EmptyPayload, Token)}
        \cup {Raw(Some("command"), Some("reframe"), Some(id), p, Token) :
                 p \in ReframePayloads}
        \cup {Raw(Some("command"), Some("refresh"), Some(id), p, Token) :
                 p \in RefreshPayloads \cup AnyRefreshPayloads}
        \cup {Raw(Some("command"), Some("attenuate"), Some(id), p, Token) :
                 p \in AttenuatePayloads}

(* C40: forget, reframe, refresh and attenuate on a stored token that has  *)
(* expired and was not swept yet succeed and append one event, which is    *)
(* not an 'expired' event; no other expired token is removed; and after a  *)
(* successful refresh the token is not expired and a decay sweep run at    *)
(* once leaves it in the store.                                            *)
C40_CommandsSkipSweep ==
    \A id \in StoredExpired :
        \A raw \in TargetCommands(id), order \in Orders :
            \A r \in {process_input(World, raw, order)} :
                /\ r.response.success
                /\ Len(r.w.audit) = Len(audit) + 1
                /\ r.w.audit[Len(r.w.audit)].event_type # "expired"
                /\ \A other \in StoredExpired \ {id} :
                      /\ other \in DOMAIN r.w.glyphs
                      /\ r.w.glyphs[other] = glyphs[other]
                /\ raw.verb = Some("refresh")
                      => /\ r.w.glyphs[id].expires_at >= now
                         /\ \A sweep \in Perms(DOMAIN get_expired_glyphs(r.w)) :
                               id \in DOMAIN run_decay_cycle(r.w, sweep).glyphs

====
